---- MODULE Spec2Model ----
(***************************************************************************)
(* Model of the guest RSVP page (src/app/rsvp/[token]/page.tsx), the       *)
(* submission endpoint (src/app/api/rsvp/route.ts) and the two tables of   *)
(* the external store they read and write.                                 *)
(*                                                                         *)
(* Nullable values of the source (boolean | null, number | null,           *)
(* string | null, Invitation | null) are modelled as sequences of length   *)
(* at most one: <<>> is null and <<v>> is the value v.                     *)
(***************************************************************************)
EXTENDS Integers, Sequences, FiniteSets, TLC

VARIABLES invitationTable, invitesTable, page, editsLeft, submits,
          succeeded, lastOk, admin, localStorage, loginPage, otherDashboard,
          response

vars == <<invitationTable, invitesTable, page, editsLeft, submits,
          succeeded, lastOk, admin, localStorage, loginPage, otherDashboard,
          response>>

(***************************************************************************)
(* Bounds of the model.                                                    *)
(***************************************************************************)
MaxGuests == 2
MaxNombre == 2
MaxEdits == 1
MaxEndpointEdits == 2
MaxRaceEdits == 1
MaxSubmits == 2
MaxDetails == 2

(***************************************************************************)
(* Values.                                                                 *)
(***************************************************************************)
Null == <<>>
Some(v) == <<v>>
T == Some(TRUE)
F == Some(FALSE)
Tri == {Null, T, F}

InviteTypes == {Some("full"), Some("partial-mairie"), Some("partial-chateau"),
                Some("other"), Null}

\* A number | null: Null, Some(n), or the number NaN.
NaN == <<0, 0>>
NombreInputs == {0 - 1, 0} \cup (1..MaxNombre)
NombreValues == {Null, NaN} \cup {Some(n) : n \in NombreInputs}

Pages == {1, 2}
InvitationIds == {"invA", "invB"}
GuestIds == 1..(MaxGuests + 1)
Tokens == {"tokA", "tokB", "tokX"}

\* crypto-js sha256(token).toString(): a deterministic, collision-free digest.
sha256(token) ==
    CASE token = "tokA" -> "9f1c"
      [] token = "tokB" -> "4be0"
      [] token = "tokX" -> "d27a"
      [] token = "tokG" -> "71aa"
      [] token = "secret" -> "2bb8"
      [] token = "guess" -> "e3b0"
      [] token = "adm1-now" -> "c0de"
      [] OTHER -> "0000"

\* The guest rows: guest 1 belongs to invB, the others to invA.  The brunch
\* column is provisioned as false on the even rows and as null on the odd ones.
FkOf(g) == IF g = 1 THEN "invB" ELSE "invA"
NomOf(g) == IF g = 2 THEN Null ELSE IF g = 1 THEN Some("Bob") ELSE Some("Alice")
BrunchOf(g) == IF g % 2 = 0 THEN F ELSE Null
TokenHashOf(i) == IF i = "invA" THEN sha256("tokA") ELSE sha256("tokB")

GuestFields == {"mairie", "cocktail", "chateau", "brunch", "autorisation_ia"}

(***************************************************************************)
(* Records of the page state.                                              *)
(***************************************************************************)
\* interface Invite
Invite(id, m, c, ch, b, ia) ==
    [id |-> id, nom |-> NomOf(id), mairie |-> m, cocktail |-> c,
     chateau |-> ch, brunch |-> b, fk_invitation |-> FkOf(id),
     autorisation_ia |-> ia]

\* interface Invitation
Invitation(id, type, regime, allergie, heb, nombre, music, confirmed) ==
    [id |-> id, nom |-> Some(id), type |-> type, regime |-> regime,
     allergie |-> allergie, hebergement |-> heb,
     herbergement_nombre |-> nombre, link_music |-> music,
     confirmed_at |-> confirmed]

(***************************************************************************)
(* validateForm: the result is ok, or the first alert raised, as the field *)
(* it is about and the guest (id and displayed name) it names.             *)
(***************************************************************************)
Ok == [ok |-> TRUE, field |-> "", id |-> 0, nom |-> ""]
Failure(field, id, nom) == [ok |-> FALSE, field |-> field, id |-> id, nom |-> nom]

\* invite.nom || "l'invite"
NomLabel(invite) ==
    IF invite.nom = Null \/ invite.nom = Some("") THEN "l'invite" ELSE invite.nom[1]

\* FirstIndex, were the loops to keep the last alert instead of returning.
FirstIndexLast(flags) ==
    IF \E i \in 1..Len(flags) : flags[i]
    THEN CHOOSE i \in 1..Len(flags) :
            /\ flags[i]
            /\ \A j \in (i + 1)..Len(flags) : ~flags[j]
    ELSE 0

\* for (const invite of invites) { if (...) { alert(...); return false; } }:
\* the index of the first guest the loop stops at, 0 if it runs through.
FirstIndex(flags) ==
    IF \E i \in 1..Len(flags) : flags[i]
    THEN CHOOSE i \in 1..Len(flags) :
            /\ flags[i]
            /\ \A j \in 1..(i - 1) : ~flags[j]
    ELSE 0

isMailleInvited(invitation) ==
    /\ invitation # Null
    /\ invitation[1].type \in {Some("full"), Some("partial-mairie")}

MairieUnanswered(invite) == invite.mairie = Null \/ invite.cocktail = Null
ChateauUnanswered(invite) == invite.chateau = Null
IaUnanswered(invite) == invite.autorisation_ia = Null

\* NombreMissing, were the test only !invitation.herbergement_nombre.
NombreMissingFalsy(nombre) == nombre = Null \/ nombre = NaN \/ nombre[1] = 0

\* !invitation.herbergement_nombre || invitation.herbergement_nombre <= 0
NombreMissing(nombre) ==
    \/ nombre = Null \/ nombre = NaN \/ nombre[1] = 0
    \/ nombre[1] <= 0

validateForm(invitation, invites) ==
    LET im == IF isMailleInvited(invitation)
              THEN FirstIndex([i \in 1..Len(invites) |-> MairieUnanswered(invites[i])]) ELSE 0
        ic == FirstIndex([i \in 1..Len(invites) |-> ChateauUnanswered(invites[i])])
        ii == FirstIndex([i \in 1..Len(invites) |-> IaUnanswered(invites[i])])
    IN  IF im # 0
        THEN IF invites[im].mairie = Null
             THEN Failure("mairie", invites[im].id, NomLabel(invites[im]))
             ELSE Failure("cocktail", invites[im].id, NomLabel(invites[im]))
        ELSE IF ic # 0
        THEN Failure("chateau", invites[ic].id, NomLabel(invites[ic]))
        ELSE IF ii # 0
        THEN Failure("autorisation_ia", invites[ii].id, NomLabel(invites[ii]))
        ELSE IF invitation # Null /\ invitation[1].hebergement = Null
        THEN Failure("hebergement", 0, "")
        ELSE IF /\ invitation # Null
                /\ invitation[1].hebergement = T
                /\ NombreMissing(invitation[1].herbergement_nombre)
        THEN Failure("herbergement_nombre", 0, "")
        ELSE Ok

(***************************************************************************)
(* State setters of the form.                                              *)
(***************************************************************************)
\* updateInvite, were the id of the guest not tested.
updateInviteAll(invites, id, field, value) ==
    [i \in 1..Len(invites) |-> [invites[i] EXCEPT ![field] = value]]

updateInvite(invites, id, field, value) ==
    [i \in 1..Len(invites) |->
        IF invites[i].id = id THEN [invites[i] EXCEPT ![field] = value]
        ELSE invites[i]]

updateInvitation(invitation, field, value) ==
    IF invitation # Null THEN Some([invitation[1] EXCEPT ![field] = value])
    ELSE invitation

(***************************************************************************)
(* The external store: the tables "invitation" and "invites".              *)
(***************************************************************************)
\* A row of the table "invitation".
InvitationRow(id, type, regime, allergie, heb, nombre, music, confirmed) ==
    [id |-> id, nom |-> Some(id), type |-> type, token_hash |-> TokenHashOf(id),
     regime |-> regime, allergie |-> allergie, hebergement |-> heb,
     herbergement_nombre |-> nombre, link_music |-> music,
     confirmed_at |-> confirmed]

\* A row of the table "invites"; token_hash, regime, allergie, hebergement and
\* confirmed_at are the columns of src/types/invite.ts the endpoint writes.
InvitesRow(id, m, c, ch, b, ia) ==
    [id |-> id, nom |-> NomOf(id), mairie |-> m, cocktail |-> c,
     chateau |-> ch, brunch |-> b, fk_invitation |-> FkOf(id),
     autorisation_ia |-> ia,
     token_hash |-> IF id = 1 THEN Some(sha256("tokG")) ELSE Null,
     regime |-> Null, allergie |-> Null, hebergement |-> Null,
     confirmed_at |-> Null]

\* select("id, nom, type, regime, ..., confirmed_at") of an invitation row
SelectInvitation(row) ==
    Invitation(row.id, row.type, row.regime, row.allergie, row.hebergement,
               row.herbergement_nombre, row.link_music, row.confirmed_at)

\* select("id, nom, mairie, ..., autorisation_ia") of an invites row
SelectInvite(row) ==
    [id |-> row.id, nom |-> row.nom, mairie |-> row.mairie,
     cocktail |-> row.cocktail, chateau |-> row.chateau, brunch |-> row.brunch,
     fk_invitation |-> row.fk_invitation,
     autorisation_ia |-> row.autorisation_ia]

\* The elements of the set S of guest ids, in increasing (insertion) order.
RECURSIVE InOrder(_)
InOrder(S) ==
    IF S = {} THEN <<>>
    ELSE LET m == CHOOSE x \in S : \A y \in S : x <= y
         IN  <<m>> \o InOrder(S \ {m})

\* from("invites").select(...).eq("fk_invitation", id)
InvitesOfInvitation(table, id) ==
    LET ids == InOrder({g \in GuestIds : table[g].fk_invitation = id})
    IN  [i \in 1..Len(ids) |-> SelectInvite(table[ids[i]])]

\* from("invitation").select(...).eq("token_hash", hash): the matching rows
InvitationsByHash(table, hash) == {i \in InvitationIds : table[i].token_hash = hash}

(***************************************************************************)
(* The page.                                                               *)
(***************************************************************************)
Unmounted ==
    [token |-> "", fetchPc |-> "unmounted", queries |-> <<>>,
     invitation |-> Null, invites |-> <<>>, fetchError |-> Null,
     submitted |-> FALSE, loading |-> FALSE,
     submitPc |-> "idle", k |-> 0, subInvitation |-> Null, subInvites |-> <<>>,
     validation |-> Null, resolve |-> "none"]

\* FormShown, were the recap not to return early.
FormShownOverRecap(p) ==
    /\ page[p].fetchPc # "unmounted"
    /\ page[p].fetchError = Null
    /\ page[p].invitation # Null

\* The form is rendered: no early return is taken.
FormShown(p) ==
    /\ page[p].fetchPc # "unmounted"
    /\ page[p].fetchError = Null
    /\ page[p].invitation # Null
    /\ ~page[p].submitted

\* The recap is rendered.
RecapShown(p) ==
    /\ page[p].fetchPc # "unmounted"
    /\ page[p].fetchError = Null
    /\ page[p].invitation # Null
    /\ page[p].submitted

showMairie(invitation) ==
    invitation.type = Some("full") \/ invitation.type = Some("partial-mairie")

Store == <<invitationTable, invitesTable>>

\* The browser of the administrator: the local storage, the login page and
\* a dashboard open in a second tab.
Browser == <<localStorage, loginPage, otherDashboard>>

\* new Date().toISOString(): the time advances with each submission
Now == submits
Ghosts == <<succeeded, lastOk>>

\* The page is opened (or reloaded) with a token: the component state is
\* new and fetchData issues the invitation lookup.
Mount(p, token) ==
    /\ page' = [page EXCEPT ![p] =
                  [Unmounted EXCEPT !.token = token, !.fetchPc = "invitation",
                                    !.queries = <<"invitation">>,
                                    !.resolve = "started"]]
    /\ UNCHANGED <<admin, Browser, response, Store, Ghosts, editsLeft, submits>>

\* FetchInvitation, were the error branch not to return.
FetchInvitationNoReturn(p, storeError) ==
    /\ page[p].fetchPc = "invitation"
    /\ LET hash == sha256(page[p].token)
           rows == InvitationsByHash(invitationTable, hash)
       IN  IF storeError \/ Cardinality(rows) # 1
           THEN page' = [page EXCEPT ![p].fetchError = Some("Invitation introuvable."),
                                     ![p].fetchPc = "done",
                                     ![p].queries = @ \o <<"invites">>]
           ELSE LET inv == SelectInvitation(invitationTable[CHOOSE i \in rows : TRUE])
                IN  page' = [page EXCEPT ![p].invitation = Some(inv),
                                         ![p].submitted =
                                             IF inv.confirmed_at # Null THEN TRUE
                                             ELSE page[p].submitted,
                                         ![p].fetchPc = "invites",
                                         ![p].queries = @ \o <<"invites">>]
    /\ UNCHANGED <<admin, Browser, response, Store, Ghosts, editsLeft, submits>>

\* The invitation lookup answers: .single() gives the row when exactly one
\* row matches and an error otherwise; the store may also fail.
FetchInvitation(p, storeError) ==
    /\ page[p].fetchPc = "invitation"
    /\ LET hash == sha256(page[p].token)
           rows == InvitationsByHash(invitationTable, hash)
       IN  IF storeError \/ Cardinality(rows) # 1
           THEN page' = [page EXCEPT ![p].fetchError = Some("Invitation introuvable."),
                                     ![p].fetchPc = "done"]
           ELSE LET inv == SelectInvitation(invitationTable[CHOOSE i \in rows : TRUE])
                IN  page' = [page EXCEPT ![p].invitation = Some(inv),
                                         ![p].submitted =
                                             IF inv.confirmed_at # Null THEN TRUE
                                             ELSE page[p].submitted,
                                         ![p].fetchPc = "invites",
                                         ![p].queries = @ \o <<"invites">>]
    /\ UNCHANGED <<admin, Browser, response, Store, Ghosts, editsLeft, submits>>

\* FetchInvites, were the load to stamp the invitation it has resolved.
FetchInvitesStamping(p, storeError) ==
    /\ page[p].fetchPc = "invites"
    /\ IF storeError
       THEN page' = [page EXCEPT ![p].fetchError =
                                     Some("Erreur lors du chargement des invites."),
                                 ![p].fetchPc = "done"]
       ELSE page' = [page EXCEPT ![p].invites =
                                     InvitesOfInvitation(invitesTable,
                                                         page[p].invitation[1].id),
                                 ![p].fetchPc = "done",
                                 ![p].validation = Null,
                                 ![p].resolve =
                                     IF page[p].resolve = "started" THEN "clean"
                                     ELSE page[p].resolve]
    /\ invitationTable' =
          [invitationTable EXCEPT ![page[p].invitation[1].id].confirmed_at = Some(Now)]
    /\ UNCHANGED <<admin, Browser, response, invitesTable, Ghosts, editsLeft, submits>>

\* The guest query answers.
FetchInvites(p, storeError) ==
    /\ page[p].fetchPc = "invites"
    /\ IF storeError
       THEN page' = [page EXCEPT ![p].fetchError =
                                     Some("Erreur lors du chargement des invites."),
                                 ![p].fetchPc = "done"]
       ELSE page' = [page EXCEPT ![p].invites =
                                     InvitesOfInvitation(invitesTable,
                                                         page[p].invitation[1].id),
                                 ![p].fetchPc = "done",
                                 ![p].validation = Null,
                                 ![p].resolve =
                                     IF page[p].resolve = "started" THEN "clean"
                                     ELSE page[p].resolve]
    /\ UNCHANGED <<admin, Browser, response, Store, Ghosts, editsLeft, submits>>

(***************************************************************************)
(* The controls of the form.  Each changes the component state through     *)
(* updateInvite or updateInvitation.                                       *)
(***************************************************************************)
RegimeTexts == {"", "sans gluten"}
AllergieTexts == {"arachides"}
MusicTexts == {"https://music.example/1"}

\* The value of the number input: empty (Null) or a decimal numeral, as its
\* integer part (none in ".5") and its first decimal.
NumberTexts ==
    {Null, Some([int |-> Null, frac |-> 5])}
    \cup {Some([int |-> Some(n), frac |-> f]) : n \in NombreInputs, f \in {0, 5}}

\* parseInt of a numeral: its integer part, NaN when it has none.
parseInt(numeral) == IF numeral.int = Null THEN NaN ELSE numeral.int

InviteIds(p) == {page[p].invites[i].id : i \in 1..Len(page[p].invites)}

InviteOf(p, id) ==
    page[p].invites[CHOOSE i \in 1..Len(page[p].invites) : page[p].invites[i].id = id]

SetInvites(p, invites) ==
    /\ editsLeft > 0
    /\ invites # page[p].invites
    /\ editsLeft' = editsLeft - 1
    /\ page' = [page EXCEPT ![p].invites = invites, ![p].resolve = "none",
                            ![p].validation = Null]
    /\ UNCHANGED <<admin, Browser, response, Store, Ghosts, submits>>

SetInvitation(p, invitation) ==
    /\ editsLeft > 0
    /\ invitation # page[p].invitation
    /\ editsLeft' = editsLeft - 1
    /\ page' = [page EXCEPT ![p].invitation = invitation, ![p].resolve = "none",
                            ![p].validation = Null]
    /\ UNCHANGED <<admin, Browser, response, Store, Ghosts, submits>>

ClickMairie(p, id, value) ==
    /\ FormShown(p)
    /\ showMairie(page[p].invitation[1])
    /\ id \in InviteIds(p)
    /\ SetInvites(p, updateInvite(page[p].invites, id, "mairie", Some(value)))

ClickCocktail(p, id, value) ==
    /\ FormShown(p)
    /\ showMairie(page[p].invitation[1])
    /\ id \in InviteIds(p)
    /\ SetInvites(p, updateInvite(page[p].invites, id, "cocktail", Some(value)))

\* ClickChateau, were the chateau answer rendered only under showChateau.
ClickChateauIfShown(p, id, value) ==
    /\ FormShown(p)
    /\ page[p].invitation[1].type \in {Some("full"), Some("partial-chateau")}
    /\ id \in InviteIds(p)
    /\ SetInvites(p, updateInvite(page[p].invites, id, "chateau", Some(value)))

ClickChateau(p, id, value) ==
    /\ FormShown(p)
    /\ id \in InviteIds(p)
    /\ SetInvites(p, updateInvite(page[p].invites, id, "chateau", Some(value)))

ToggleBrunch(p, id) ==
    /\ FormShown(p)
    /\ id \in InviteIds(p)
    /\ SetInvites(p, updateInvite(page[p].invites, id, "brunch",
                                  IF InviteOf(p, id).brunch = T THEN F ELSE T))

ClickIa(p, id, value) ==
    /\ FormShown(p)
    /\ id \in InviteIds(p)
    /\ SetInvites(p, updateInvite(page[p].invites, id, "autorisation_ia", Some(value)))

TypeRegime(p, text) ==
    /\ FormShown(p)
    /\ SetInvitation(p, updateInvitation(page[p].invitation, "regime", Some(text)))

TypeAllergie(p, text) ==
    /\ FormShown(p)
    /\ SetInvitation(p, updateInvitation(page[p].invitation, "allergie", Some(text)))

TypeLinkMusic(p, text) ==
    /\ FormShown(p)
    /\ SetInvitation(p, updateInvitation(page[p].invitation, "link_music", Some(text)))

ClickHebergementOui(p) ==
    /\ FormShown(p)
    /\ SetInvitation(p, updateInvitation(page[p].invitation, "hebergement", T))

\* ClickHebergementNon, were the headcount not cleared.
ClickHebergementNonKeep(p) ==
    /\ FormShown(p)
    /\ SetInvitation(p, updateInvitation(page[p].invitation, "hebergement", F))

ClickHebergementNon(p) ==
    /\ FormShown(p)
    /\ SetInvitation(p, updateInvitation(
                            updateInvitation(page[p].invitation, "hebergement", F),
                            "herbergement_nombre", Null))

\* The number input is rendered only while hebergement is true.
TypeNombre(p, text) ==
    /\ FormShown(p)
    /\ page[p].invitation[1].hebergement = T
    /\ SetInvitation(p, updateInvitation(page[p].invitation, "herbergement_nombre",
                            IF text # Null THEN parseInt(text[1]) ELSE Null))

\* "Modifier mon invitation" on the recap.
ClickModifier(p) ==
    /\ RecapShown(p)
    /\ page' = [page EXCEPT ![p].submitted = FALSE]
    /\ UNCHANGED <<admin, Browser, response, Store, Ghosts, editsLeft, submits>>

(***************************************************************************)
(* handleSubmit.  The handler runs to its first await in one step; each    *)
(* awaited update of the store is one further step, which applies the      *)
(* update (or fails) and runs the handler to its next await or its end.    *)
(***************************************************************************)
\* The handler has ended: finally { setLoading(false) }.
Ended(pg) ==
    [pg EXCEPT !.loading = FALSE, !.submitPc = "idle", !.k = 0,
               !.subInvitation = Null, !.subInvites = <<>>]

\* No page holds a resolve older than the submission that just succeeded.
AfterSuccess(pgs) == [q \in Pages |-> [pgs[q] EXCEPT !.resolve = "none"]]

Succeed(p) ==
    /\ page' = AfterSuccess([page EXCEPT ![p] = [Ended(page[p]) EXCEPT !.submitted = TRUE]])
    /\ succeeded' = succeeded \cup {page[p].subInvitation[1].id}
    /\ lastOk' = Some([id |-> page[p].subInvitation[1].id,
                       invitation |-> page[p].subInvitation[1],
                       invites |-> page[p].subInvites])

\* catch (err) { alert(...) }
Fail(p) ==
    /\ page' = [page EXCEPT ![p] = Ended(page[p])]
    /\ UNCHANGED <<succeeded>>

\* HandleSubmit, were the submit button not disabled while loading.
HandleSubmitWhileLoading(p) ==
    /\ FormShown(p)
    /\ LET v == validateForm(page[p].invitation, page[p].invites)
       IN  IF ~v.ok
           THEN /\ page' = [page EXCEPT ![p].validation = Some(v)]
                /\ UNCHANGED submits
           ELSE /\ submits < MaxSubmits
                /\ submits' = submits + 1
                /\ page' = [page EXCEPT ![p].validation = Some(v),
                                        ![p].loading = TRUE,
                                        ![p].submitPc = "invitation",
                                        ![p].subInvitation = page[p].invitation,
                                        ![p].subInvites = page[p].invites]
    /\ UNCHANGED <<admin, Browser, response, Store, Ghosts, editsLeft>>

\* HandleSubmit, were the result of validateForm not to stop the handler.
HandleSubmitUngated(p) ==
    /\ FormShown(p)
    /\ ~page[p].loading
    /\ LET v == validateForm(page[p].invitation, page[p].invites)
       IN  /\ submits < MaxSubmits
           /\ submits' = submits + 1
           /\ page' = [page EXCEPT ![p].validation = Some(v),
                                   ![p].loading = TRUE,
                                   ![p].submitPc = "invitation",
                                   ![p].subInvitation = page[p].invitation,
                                   ![p].subInvites = page[p].invites]
    /\ UNCHANGED <<admin, Browser, response, Store, Ghosts, editsLeft>>

\* The submit button (disabled while loading) submits the form.
HandleSubmit(p) ==
    /\ FormShown(p)
    /\ ~page[p].loading
    /\ LET v == validateForm(page[p].invitation, page[p].invites)
       IN  IF ~v.ok
           THEN /\ page' = [page EXCEPT ![p].validation = Some(v)]
                /\ UNCHANGED submits
           ELSE /\ submits < MaxSubmits
                /\ submits' = submits + 1
                /\ page' = [page EXCEPT ![p].validation = Some(v),
                                        ![p].loading = TRUE,
                                        ![p].submitPc = "invitation",
                                        ![p].subInvitation = page[p].invitation,
                                        ![p].subInvites = page[p].invites]
    /\ UNCHANGED <<admin, Browser, response, Store, Ghosts, editsLeft>>

\* The request body is JSON: NaN is serialised as null.
ToJson(nombre) == IF nombre = NaN THEN Null ELSE nombre

\* UpdateInvitationRows, were the null fields left out of the update.
UpdateInvitationRowsSkipNull(table, invitation, now) ==
    [i \in InvitationIds |->
        IF table[i].id = invitation.id
        THEN [table[i] EXCEPT
                !.regime = IF invitation.regime = Null THEN @ ELSE invitation.regime,
                !.allergie = IF invitation.allergie = Null THEN @ ELSE invitation.allergie,
                !.hebergement = IF invitation.hebergement = Null THEN @
                                ELSE invitation.hebergement,
                !.herbergement_nombre =
                    IF ToJson(invitation.herbergement_nombre) = Null THEN @
                    ELSE invitation.herbergement_nombre,
                !.link_music = IF invitation.link_music = Null THEN @
                               ELSE invitation.link_music,
                !.confirmed_at = Some(now)]
        ELSE table[i]]

\* from("invitation").update({...}).eq("id", invitation.id)
UpdateInvitationRows(table, invitation, now) ==
    [i \in InvitationIds |->
        IF table[i].id = invitation.id
        THEN [table[i] EXCEPT !.regime = invitation.regime,
                              !.allergie = invitation.allergie,
                              !.hebergement = invitation.hebergement,
                              !.herbergement_nombre = ToJson(invitation.herbergement_nombre),
                              !.link_music = invitation.link_music,
                              !.confirmed_at = Some(now)]
        ELSE table[i]]

\* UpdateInvitesRows, were brunch left out of the update.
UpdateInvitesRowsNoBrunch(table, invite) ==
    [g \in GuestIds |->
        IF table[g].id = invite.id
        THEN [table[g] EXCEPT !.mairie = invite.mairie,
                              !.cocktail = invite.cocktail,
                              !.chateau = invite.chateau,
                              !.autorisation_ia = invite.autorisation_ia]
        ELSE table[g]]

\* from("invites").update({...}).eq("id", invite.id)
UpdateInvitesRows(table, invite) ==
    [g \in GuestIds |->
        IF table[g].id = invite.id
        THEN [table[g] EXCEPT !.mairie = invite.mairie,
                              !.cocktail = invite.cocktail,
                              !.chateau = invite.chateau,
                              !.brunch = invite.brunch,
                              !.autorisation_ia = invite.autorisation_ia]
        ELSE table[g]]

\* The payload of the invitation update: .update({ regime, ..., confirmed_at })
InvitationPayload(invitation, now) ==
    [regime |-> invitation.regime, allergie |-> invitation.allergie,
     hebergement |-> invitation.hebergement,
     herbergement_nombre |-> ToJson(invitation.herbergement_nombre),
     link_music |-> invitation.link_music, confirmed_at |-> Some(now)]

\* The payload of a guest update: .update({ mairie, ..., autorisation_ia })
InvitePayload(invite) ==
    [mairie |-> invite.mairie, cocktail |-> invite.cocktail,
     chateau |-> invite.chateau, brunch |-> invite.brunch,
     autorisation_ia |-> invite.autorisation_ia]

\* The update of the invitation row answers.
SubmitInvitation(p, storeError) ==
    /\ page[p].submitPc = "invitation"
    /\ IF storeError
       THEN /\ Fail(p)
            /\ UNCHANGED <<Store, lastOk>>
       ELSE /\ invitationTable' = UpdateInvitationRows(invitationTable,
                                      page[p].subInvitation[1], Now)
            /\ UNCHANGED invitesTable
            /\ IF Len(page[p].subInvites) = 0
               THEN Succeed(p)
               ELSE /\ page' = [page EXCEPT ![p].submitPc = "invites", ![p].k = 1]
                    /\ lastOk' = Null
                    /\ UNCHANGED succeeded
    /\ UNCHANGED <<admin, Browser, response, editsLeft, submits>>

\* The update of the k-th guest row answers.
SubmitInvite(p, storeError) ==
    /\ page[p].submitPc = "invites"
    /\ IF storeError
       THEN /\ Fail(p)
            /\ UNCHANGED <<Store, lastOk>>
       ELSE /\ invitesTable' = UpdateInvitesRows(invitesTable,
                                                 page[p].subInvites[page[p].k])
            /\ UNCHANGED invitationTable
            /\ IF page[p].k = Len(page[p].subInvites)
               THEN Succeed(p)
               ELSE /\ page' = [page EXCEPT ![p].k = page[p].k + 1]
                    /\ lastOk' = Null
                    /\ UNCHANGED succeeded
    /\ UNCHANGED <<admin, Browser, response, editsLeft, submits>>

(***************************************************************************)
(* The submission endpoint, POST of src/app/api/rsvp/route.ts.  A body is  *)
(* a record holding the token and the fields that were supplied; a field   *)
(* that is not supplied (undefined) is left out of the update.             *)
(***************************************************************************)
PostBodies ==
    {[token |-> "tokX"],
     [token |-> "tokG", mairie |-> T, cocktail |-> F, chateau |-> T,
      regime |-> Some("sans gluten"), allergie |-> Some(""),
      hebergement |-> T, brunch |-> F],
     [token |-> "tokG", mairie |-> Null],
     [token |-> "tokB", chateau |-> T, hebergement |-> F]}

Supplied(body, row, field) == IF field \in DOMAIN body THEN body[field] ELSE row[field]

\* from("invites").update({...}).eq("token_hash", tokenHash)
PostUpdateRows(table, body, tokenHash, now) ==
    [g \in GuestIds |->
        IF table[g].token_hash = Some(tokenHash)
        THEN [table[g] EXCEPT !.mairie = Supplied(body, table[g], "mairie"),
                              !.cocktail = Supplied(body, table[g], "cocktail"),
                              !.chateau = Supplied(body, table[g], "chateau"),
                              !.regime = Supplied(body, table[g], "regime"),
                              !.allergie = Supplied(body, table[g], "allergie"),
                              !.hebergement = Supplied(body, table[g], "hebergement"),
                              !.brunch = Supplied(body, table[g], "brunch"),
                              !.confirmed_at = Some(now)]
        ELSE table[g]]

\* The handler up to the answer of the store: the update is applied, or the
\* store reports an error.
PostUpdate(body, storeError) ==
    /\ IF storeError
       THEN UNCHANGED <<Store, lastOk>>
       ELSE LET tokenHash == sha256(body.token)
            IN  /\ invitesTable' = PostUpdateRows(invitesTable, body, tokenHash, Now)
                /\ lastOk' = IF invitesTable' # invitesTable THEN Null ELSE lastOk
                /\ UNCHANGED invitationTable
    /\ UNCHANGED <<page, succeeded, admin, Browser, editsLeft, submits>>

\* Response.json({ ok: true })
OkResponse == [status |-> 200, ok |-> TRUE]

\* Response.json({ error: error.message }, { status: 500 })
ErrorResponse == [status |-> 500, ok |-> FALSE]

\* PostResponse, were a call that updates no row answered as a failure.
PostResponseNoRow(body, storeError) ==
    IF storeError \/ \A g \in GuestIds : invitesTable[g].token_hash # Some(sha256(body.token))
    THEN ErrorResponse ELSE OkResponse

\* if (error) return the failure response; return the success response
PostResponse(body, storeError) == IF storeError THEN ErrorResponse ELSE OkResponse

\* POST: the handler and the response the caller receives.
POST(body, storeError) ==
    /\ PostUpdate(body, storeError)
    /\ response' = Some(PostResponse(body, storeError))

(***************************************************************************)
(* The admin dashboard, src/unnamed/part_002.                              *)
(***************************************************************************)
\* useState initial values of AdminDashboardPage
AdminUnmounted ==
    [pc |-> "unmounted", invitationsData |-> <<>>, invitations |-> <<>>,
     loading |-> TRUE, error |-> Null, stats |-> Null,
     statsModal |-> Null, accommodationModal |-> Null,
     selectedInvitation |-> Null, invitationDetails |-> Null,
     loadingDetails |-> FALSE, pending |-> <<>>]

\* select("id, nom, ..., confirmed_at, url") of an invitation row, with
\* the guests nested under it: { ...inv, invites }
InvitationData(row, invites) ==
    [id |-> row.id, nom |-> row.nom, type |-> row.type, regime |-> row.regime,
     allergie |-> row.allergie, hebergement |-> row.hebergement,
     herbergement_nombre |-> row.herbergement_nombre,
     link_music |-> row.link_music, confirmed_at |-> row.confirmed_at,
     invites |-> invites]

\* String.prototype.trim on the regime texts of the model.
trim(text) ==
    CASE text = " " -> ""
      [] text = " sans gluten" -> "sans gluten"
      [] OTHER -> text

\* The names an empty object literal inherits from Object.prototype:
\* stats.regimes[name] is defined for them before any group is stored.
ObjectPrototypeKeys == {"constructor", "toString", "valueOf", "hasOwnProperty"}

\* x || 0 for a number | null
OrZero(nombre) == IF nombre = Null \/ nombre = NaN THEN 0 ELSE nombre[1]

\* x || fallback for a string | null
OrText(text, fallback) == IF text = Null \/ text = Some("") THEN fallback ELSE text[1]

Counter == [accepted |-> 0, refused |-> 0, total |-> 0]

\* const stats = { complete, mairie, chateau, accommodation: 0, regimes: {} }
EmptyStats ==
    [complete |-> Counter, mairie |-> Counter, chateau |-> Counter,
     accommodation |-> 0, regimes |-> [k \in {} |-> Null], threw |-> FALSE]

\* total += 1; accepted += 1 if the answer is true; refused += 1 if false
Count(counter, answer) ==
    [accepted |-> counter.accepted + (IF answer = T THEN 1 ELSE 0),
     refused |-> counter.refused + (IF answer = F THEN 1 ELSE 0),
     total |-> counter.total + 1]

\* CountComplete, were the category to take the guests of every invitation.
CountCompleteAnyType(stats, inv, invite) ==
    [stats EXCEPT !.complete = Count(@, invite.chateau)]

\* COMPLETE: full invitations only
CountComplete(stats, inv, invite) ==
    IF inv.type = Some("full")
    THEN [stats EXCEPT !.complete = Count(@, invite.chateau)]
    ELSE stats

\* CountMairie, were every answer other than true counted as refused.
CountMairieNullRefused(stats, inv, invite) ==
    IF inv.type = Some("full") \/ inv.type = Some("partial-mairie")
    THEN [stats EXCEPT !.mairie =
              Count(@, IF invite.mairie = T THEN T ELSE F)]
    ELSE stats

\* MAIRIE: full + partial-mairie invitations
CountMairie(stats, inv, invite) ==
    IF inv.type = Some("full") \/ inv.type = Some("partial-mairie")
    THEN [stats EXCEPT !.mairie = Count(@, invite.mairie)]
    ELSE stats

\* CHATEAU: full + partial-chateau invitations
CountChateau(stats, inv, invite) ==
    IF inv.type = Some("full") \/ inv.type = Some("partial-chateau")
    THEN [stats EXCEPT !.chateau = Count(@, invite.chateau)]
    ELSE stats

\* The body of inv.invites.forEach((invite) => { ... })
CountGuest(stats, inv, invite) ==
    CountChateau(CountMairie(CountComplete(stats, inv, invite), inv, invite),
                 inv, invite)

\* inv.invites.forEach, from the k-th guest on
RECURSIVE CountGuests(_, _, _)
CountGuests(stats, inv, k) ==
    IF k > Len(inv.invites) THEN stats
    ELSE CountGuests(CountGuest(stats, inv, inv.invites[k]), inv, k + 1)

\* CountAccommodation, were the headcount assigned instead of added.
CountAccommodationAssign(stats, inv) ==
    IF inv.hebergement = T
    THEN [stats EXCEPT !.accommodation = OrZero(inv.herbergement_nombre)]
    ELSE stats

\* CountAccommodation, were the flag not looked at.
CountAccommodationAnyFlag(stats, inv) ==
    [stats EXCEPT !.accommodation = @ + OrZero(inv.herbergement_nombre)]

\* if (inv.hebergement === true) stats.accommodation += inv.herbergement_nombre || 0
CountAccommodation(stats, inv) ==
    IF inv.hebergement = T
    THEN [stats EXCEPT !.accommodation = @ + OrZero(inv.herbergement_nombre)]
    ELSE stats

\* if (inv.regime && inv.regime.trim()) { ... }: the group of the regime is
\* created when stats.regimes[inv.regime] is falsy, then count += 1 and the
\* name is pushed.  For a name inherited from Object.prototype the lookup is
\* truthy, no group is created, and .invitations.push throws a TypeError.
CollectRegime(stats, inv) ==
    IF inv.regime # Null /\ inv.regime # Some("") /\ trim(inv.regime[1]) # ""
    THEN LET key == inv.regime[1]
             nom == OrText(inv.nom, "")
         IN  IF key \in DOMAIN stats.regimes
             THEN [stats EXCEPT !.regimes[key] =
                      [count |-> @.count + 1,
                       invitations |-> Append(@.invitations, nom)]]
             ELSE IF key \in ObjectPrototypeKeys
             THEN [stats EXCEPT !.threw = TRUE]
             ELSE [stats EXCEPT !.regimes =
                      [k \in DOMAIN stats.regimes \cup {key} |->
                          IF k = key THEN [count |-> 1, invitations |-> <<nom>>]
                          ELSE stats.regimes[k]]]
    ELSE stats

\* invitations.forEach((inv) => { ... }), from the i-th invitation on; an
\* exception ends the loop.
RECURSIVE CountInvitations(_, _, _)
CountInvitations(stats, invitations, i) ==
    IF i > Len(invitations) \/ stats.threw THEN stats
    ELSE CountInvitations(
             CollectRegime(
                 CountAccommodation(CountGuests(stats, invitations[i], 1),
                                    invitations[i]),
                 invitations[i]),
             invitations, i + 1)

\* calculateStats(): the stats, or threw when the pass raised an exception
calculateStats(invitations) == CountInvitations(EmptyStats, invitations, 1)

StatsTypes == {"mairie", "chateau"}
StatsStatuses == {"accepted", "refused"}

\* include, were the type of the invitation not looked at.
IncludeAnyType(inv, invite, type, status) ==
    LET wanted == IF status = "accepted" THEN T ELSE F
    IN  IF type = "mairie" THEN invite.mairie = wanted ELSE invite.chateau = wanted

\* let include = false; if (type === "mairie") { ... } else if (type === "chateau") { ... }
Include(inv, invite, type, status) ==
    IF type = "mairie"
    THEN /\ inv.type = Some("full") \/ inv.type = Some("partial-mairie")
         /\ \/ status = "accepted" /\ invite.mairie = T
            \/ status = "refused" /\ invite.mairie = F
    ELSE /\ type = "chateau"
         /\ inv.type = Some("full") \/ inv.type = Some("partial-chateau")
         /\ \/ status = "accepted" /\ invite.chateau = T
            \/ status = "refused" /\ invite.chateau = F

\* people.push({ nom: invite.nom || "Invité", invitationNom: inv.nom || "Invitation" })
RECURSIVE PeopleOf(_, _, _, _)
PeopleOf(inv, type, status, k) ==
    IF k > Len(inv.invites) THEN <<>>
    ELSE (IF Include(inv, inv.invites[k], type, status)
          THEN <<[nom |-> OrText(inv.invites[k].nom, "Invite"),
                  invitationNom |-> OrText(inv.nom, "Invitation")]>>
          ELSE <<>>) \o PeopleOf(inv, type, status, k + 1)

RECURSIVE PeopleFrom(_, _, _, _)
PeopleFrom(invitations, type, status, i) ==
    IF i > Len(invitations) THEN <<>>
    ELSE PeopleOf(invitations[i], type, status, 1)
         \o PeopleFrom(invitations, type, status, i + 1)

getStatsDetails(invitations, type, status) == PeopleFrom(invitations, type, status, 1)

\* getAccommodationDetails, from the i-th invitation on
RECURSIVE AccommodationsFrom(_, _)
AccommodationsFrom(invitations, i) ==
    IF i > Len(invitations) THEN <<>>
    ELSE (IF invitations[i].hebergement = T
          THEN <<[nom |-> OrText(invitations[i].nom, "Invitation"),
                  nombre |-> OrZero(invitations[i].herbergement_nombre)]>>
          ELSE <<>>) \o AccommodationsFrom(invitations, i + 1)

getAccommodationDetails(invitations) == AccommodationsFrom(invitations, 1)

\* The rows of a select without an order, in the order the store answers
\* them: by increasing or by decreasing id.
Orders == {"asc", "desc"}

Reverse(seq) == [i \in 1..Len(seq) |-> seq[Len(seq) + 1 - i]]

InvitationRowsIn(table, order) ==
    LET ids == IF order = "asc" THEN <<"invA", "invB">> ELSE <<"invB", "invA">>
    IN  [i \in 1..Len(ids) |-> table[ids[i]]]

InvitesRowsIn(table, order) ==
    LET ids == IF order = "asc" THEN InOrder(GuestIds) ELSE Reverse(InOrder(GuestIds))
    IN  [i \in 1..Len(ids) |-> SelectInvite(table[ids[i]])]

\* No modal covers the dashboard.
NoModal == admin.statsModal = Null /\ admin.accommodationModal = Null

\* NestInvites, were the guests not filtered by their invitation.
NestInvitesUnfiltered(inv, allInvitesData) == allInvitesData

\* (allInvitesData || []).filter((invite) => invite.fk_invitation === inv.id)
NestInvites(inv, allInvitesData) ==
    SelectSeq(allInvitesData, LAMBDA invite : invite.fk_invitation = inv.id)

\* checkAuth: without an adminToken in the local storage the dashboard goes
\* to the login page, with one it starts fetchInvitations.
AdminMount ==
    /\ admin.pc = "unmounted"
    /\ admin' = [admin EXCEPT !.pc = IF localStorage.adminToken # Null
                                     THEN "invitation" ELSE "login",
                              !.stats = Some(calculateStats(<<>>))]
    /\ UNCHANGED <<Browser, response, Store, Ghosts, page, editsLeft, submits>>

\* fetchInvitations: the query of the invitations answers.
AdminFetchInvitation(storeError, order) ==
    /\ admin.pc = "invitation"
    /\ IF storeError
       THEN admin' = [admin EXCEPT
                         !.error = Some("Erreur lors du chargement des invitations."),
                         !.loading = FALSE, !.pc = "done"]
       ELSE admin' = [admin EXCEPT
                         !.invitationsData = InvitationRowsIn(invitationTable, order),
                         !.pc = "invites"]
    /\ UNCHANGED <<Browser, response, Store, Ghosts, page, editsLeft, submits>>

\* fetchInvitations: the query of the guests answers; the guests are nested
\* under their invitations and the dashboard renders, computing the stats.
AdminFetchInvites(storeError, order) ==
    /\ admin.pc = "invites"
    /\ IF storeError
       THEN admin' = [admin EXCEPT
                         !.error = Some("Erreur lors du chargement des invites."),
                         !.loading = FALSE, !.pc = "done"]
       ELSE LET allInvitesData == InvitesRowsIn(invitesTable, order)
                invitationsWithInvites ==
                    [i \in 1..Len(admin.invitationsData) |->
                        InvitationData(admin.invitationsData[i],
                                       NestInvites(admin.invitationsData[i],
                                                   allInvitesData))]
            IN  admin' = [admin EXCEPT
                             !.invitations = invitationsWithInvites,
                             !.stats = Some(calculateStats(invitationsWithInvites)),
                             !.loading = FALSE, !.pc = "done"]
    /\ UNCHANGED <<Browser, response, Store, Ghosts, page, editsLeft, submits>>

\* The dashboard is rendered: loading is over and calculateStats returned.
DashboardShown == admin.pc = "done" /\ ~admin.loading /\ ~admin.stats[1].threw

\* onClick of a counter: setStatsModal({ type, status, people: getStatsDetails(type, status) })
OpenStatsModal(type, status) ==
    /\ DashboardShown
    /\ NoModal
    /\ admin' = [admin EXCEPT !.statsModal =
                    Some([type |-> type, status |-> status,
                          people |-> getStatsDetails(admin.invitations, type, status)])]
    /\ UNCHANGED <<Browser, response, Store, Ghosts, page, editsLeft, submits>>

\* onClick of the accommodation total
OpenAccommodationModal ==
    /\ DashboardShown
    /\ NoModal
    /\ admin' = [admin EXCEPT !.accommodationModal =
                    Some([invitations |-> getAccommodationDetails(admin.invitations)])]
    /\ UNCHANGED <<Browser, response, Store, Ghosts, page, editsLeft, submits>>

\* setStatsModal(null), setAccommodationModal(null)
CloseModals ==
    /\ admin.statsModal # Null \/ admin.accommodationModal # Null
    /\ admin' = [admin EXCEPT !.statsModal = Null, !.accommodationModal = Null]
    /\ UNCHANGED <<Browser, response, Store, Ghosts, page, editsLeft, submits>>

(***************************************************************************)
(* The session of the administrator: the login page, src/unnamed/part_001, *)
(* checkAuth and handleLogout of the dashboard, and the local storage that *)
(* the tabs of one browser share.  Tab 1 shows the dashboard held in       *)
(* admin; tab 2 shows a second instance of it, of which only the position  *)
(* is kept.                                                                *)
(***************************************************************************)
Tabs == {1, 2}

\* The table "admin": id, login and the sha256 digest of the password.
AdminRows == {[id |-> "adm1", login |-> "admin", password |-> sha256("secret")]}

\* What is typed in the login form.
Logins == {"admin", "eve"}
Passwords == {"secret", "guess"}

\* localStorage without and with the items adminToken and adminId.
NoSession == [adminToken |-> Null, adminId |-> Null]

Session(adminRow) ==
    [adminToken |-> Some(sha256("adm1-now")), adminId |-> Some(adminRow.id)]

\* useState initial values of AdminLoginPage
LoginUnmounted == [error |-> Null, loading |-> FALSE]

\* What a tab shows: "login" is the login page, the rest is the dashboard.
TabPc(t) == IF t = 1 THEN admin.pc ELSE otherDashboard

\* handleSubmit of the login page: the admin of the login is looked up with
\* .single(), the digest of the password is compared with the stored one,
\* and on a match the session items are stored and the tab goes to the
\* dashboard.
LoginHandleSubmit(t, login, password, storeError) ==
    /\ TabPc(t) = "login"
    /\ LET rows == {r \in AdminRows : r.login = login}
           hashedPassword == sha256(password)
       IN  IF \/ storeError
              \/ Cardinality(rows) # 1
              \/ hashedPassword # (CHOOSE r \in rows : TRUE).password
           THEN /\ loginPage' = [loginPage EXCEPT ![t] =
                                    [error |-> Some("Login ou mot de passe incorrect."),
                                     loading |-> FALSE]]
                /\ UNCHANGED <<localStorage, admin, otherDashboard>>
           ELSE /\ localStorage' = Session(CHOOSE r \in rows : TRUE)
                /\ loginPage' = [loginPage EXCEPT ![t] = LoginUnmounted]
                /\ IF t = 1
                   THEN admin' = AdminUnmounted /\ UNCHANGED otherDashboard
                   ELSE otherDashboard' = "unmounted" /\ UNCHANGED admin
    /\ UNCHANGED <<response, Store, Ghosts, page, editsLeft, submits>>

\* The dashboard of tab 2 is opened: checkAuth.
OtherMount ==
    /\ otherDashboard = "unmounted"
    /\ otherDashboard' = IF localStorage.adminToken # Null THEN "loading" ELSE "login"
    /\ UNCHANGED <<admin, localStorage, loginPage, response, Store, Ghosts, page, editsLeft, submits>>

\* fetchInvitations of tab 2 has ended: finally { setLoading(false) }.
OtherLoaded ==
    /\ otherDashboard = "loading"
    /\ otherDashboard' = "shown"
    /\ UNCHANGED <<admin, localStorage, loginPage, response, Store, Ghosts, page, editsLeft, submits>>

\* The details modal covers the dashboard.
DetailsModalShown == admin.selectedInvitation # Null /\ admin.invitationDetails # Null

\* The header of the dashboard of a tab, with "Deconnexion", can be clicked.
LogoutShown(t) ==
    IF t = 1 THEN DashboardShown /\ NoModal /\ ~DetailsModalShown
    ELSE otherDashboard = "shown"

\* handleLogout: the session items are removed and the tab goes to the
\* login page; the dashboard of the tab is unmounted.
handleLogout(t) ==
    /\ LogoutShown(t)
    /\ localStorage' = NoSession
    /\ IF t = 1
       THEN admin' = [AdminUnmounted EXCEPT !.pc = "login"] /\ UNCHANGED otherDashboard
       ELSE otherDashboard' = "login" /\ UNCHANGED admin
    /\ UNCHANGED <<loginPage, response, Store, Ghosts, page, editsLeft, submits>>

(***************************************************************************)
(* The details of an invitation: the button "Details" of a row and         *)
(* fetchInvitationDetails.                                                 *)
(***************************************************************************)
\* onClick of "Details" of the row of an invitation: the selected row is
\* deselected, another row is selected and its details are fetched.
ClickDetails(id) ==
    /\ DashboardShown
    /\ NoModal
    /\ ~DetailsModalShown
    /\ \E i \in 1..Len(admin.invitations) : admin.invitations[i].id = id
    /\ IF admin.selectedInvitation = Some(id)
       THEN admin' = [admin EXCEPT !.selectedInvitation = Null,
                                   !.invitationDetails = Null]
       ELSE /\ Len(admin.pending) < MaxDetails
            /\ admin' = [admin EXCEPT !.selectedInvitation = Some(id),
                                      !.loadingDetails = TRUE,
                                      !.pending = Append(@, id)]
    /\ UNCHANGED <<Browser, response, Store, Ghosts, page, editsLeft, submits>>

\* The sequence without its k-th element.
Without(seq, k) ==
    [i \in 1..(Len(seq) - 1) |-> IF i < k THEN seq[i] ELSE seq[i + 1]]

\* fetchInvitationDetails: the guest query of the k-th fetch in flight
\* answers (the answers come in any order).  The invitation is found in the
\* invitations of the render of the click, which are those of the load.
FetchInvitationDetails(k, storeError) ==
    /\ k \in 1..Len(admin.pending)
    /\ LET invitationId == admin.pending[k]
           invitesData == InvitesOfInvitation(invitesTable, invitationId)
           found == {i \in 1..Len(admin.invitations) :
                        admin.invitations[i].id = invitationId}
       IN  IF storeError
           THEN admin' = [admin EXCEPT
                             !.error = Some("Erreur lors du chargement des details."),
                             !.loadingDetails = FALSE,
                             !.pending = Without(@, k)]
           ELSE admin' = [admin EXCEPT
                             !.invitationDetails =
                                 IF found # {}
                                 THEN Some([admin.invitations[CHOOSE i \in found :
                                                \A j \in found : i <= j]
                                            EXCEPT !.invites = invitesData])
                                 ELSE @,
                             !.loadingDetails = FALSE,
                             !.pending = Without(@, k)]
    /\ UNCHANGED <<Browser, response, Store, Ghosts, page, editsLeft, submits>>

\* The close button of the details modal, rendered once loadingDetails is
\* false.
CloseDetails ==
    /\ DetailsModalShown
    /\ ~admin.loadingDetails
    /\ admin' = [admin EXCEPT !.selectedInvitation = Null, !.invitationDetails = Null]
    /\ UNCHANGED <<Browser, response, Store, Ghosts, page, editsLeft, submits>>

(***************************************************************************)
(* Initial states: the rows as provisioned (nothing answered), or the rows *)
(* of invA as an earlier successful submission left them.                  *)
(***************************************************************************)
Provisioned(id, type) == InvitationRow(id, type, Null, Null, Null, Null, Null, Null)

Answered(id, type) == InvitationRow(id, type, Null, Some(""), T, Some(1), Null, Some(0))

ProvisionedGuest(g) == InvitesRow(g, Null, Null, Null, BrunchOf(g), Null)

AnsweredGuest(g, type) ==
    IF type \in {Some("full"), Some("partial-mairie")}
    THEN InvitesRow(g, T, F, T, BrunchOf(g), F)
    ELSE InvitesRow(g, Null, Null, T, BrunchOf(g), F)

InitWith(type, answered, budget) ==
    /\ invitationTable =
          [i \in InvitationIds |->
              IF i = "invA"
              THEN IF answered THEN Answered(i, type) ELSE Provisioned(i, type)
              ELSE Provisioned(i, Some("partial-chateau"))]
    /\ invitesTable =
          [g \in GuestIds |->
              IF FkOf(g) = "invA" /\ answered THEN AnsweredGuest(g, type)
              ELSE ProvisionedGuest(g)]
    /\ succeeded = IF answered THEN {"invA"} ELSE {}
    /\ page = [p \in Pages |-> Unmounted]
    /\ editsLeft = budget
    /\ submits = 0
    /\ lastOk = Null
    /\ admin = AdminUnmounted
    /\ localStorage = NoSession
    /\ loginPage = [t \in Tabs |-> LoginUnmounted]
    /\ otherDashboard = "unmounted"
    /\ response = Null

Init ==
    \E type \in InviteTypes \ {Some("other")}, answered \in BOOLEAN :
        InitWith(type, answered, MaxEdits)

PageNext(p) ==
    \/ \E token \in Tokens : Mount(p, token)
    \/ \E storeError \in BOOLEAN : FetchInvitation(p, storeError)
    \/ \E storeError \in BOOLEAN : FetchInvites(p, storeError)
    \/ \E id \in GuestIds, value \in BOOLEAN : ClickMairie(p, id, value)
    \/ \E id \in GuestIds, value \in BOOLEAN : ClickCocktail(p, id, value)
    \/ \E id \in GuestIds, value \in BOOLEAN : ClickChateau(p, id, value)
    \/ \E id \in GuestIds : ToggleBrunch(p, id)
    \/ \E id \in GuestIds, value \in BOOLEAN : ClickIa(p, id, value)
    \/ \E text \in RegimeTexts : TypeRegime(p, text)
    \/ \E text \in AllergieTexts : TypeAllergie(p, text)
    \/ \E text \in MusicTexts : TypeLinkMusic(p, text)
    \/ ClickHebergementOui(p)
    \/ ClickHebergementNon(p)
    \/ \E text \in NumberTexts : TypeNombre(p, text)
    \/ ClickModifier(p)
    \/ HandleSubmit(p)
    \/ \E storeError \in BOOLEAN : SubmitInvitation(p, storeError)
    \/ \E storeError \in BOOLEAN : SubmitInvite(p, storeError)

\* One page and the store.
Next == \E p \in {1} : PageNext(p)

Spec == Init /\ [][Next]_vars

\* One page, the store and the endpoint, from one provisioning: invA is of
\* type full and answered, invB is as provisioned.
InitEndpoint == InitWith(Some("full"), TRUE, MaxEndpointEdits)

NextEndpoint ==
    \/ \E p \in {1} : PageNext(p)
    \/ \E body \in PostBodies, storeError \in BOOLEAN :
          PostUpdate(body, storeError) /\ UNCHANGED response

SpecEndpoint == InitEndpoint /\ [][NextEndpoint]_vars

(***************************************************************************)
(* The dashboard alone, over rows drawn from the values below.             *)
(***************************************************************************)
AdminRegimes ==
    {Null, Some(""), Some(" "), Some("sans gluten"), Some(" sans gluten"),
     Some("constructor")}

\* hebergement and herbergement_nombre of a row
AdminAccommodations == {<<T, Some(MaxNombre)>>, <<T, Null>>, <<F, Some(1)>>}

\* mairie and chateau of a guest row
AdminAnswers(g) ==
    IF g = 2 THEN {<<T, T>>, <<F, Null>>, <<Null, F>>}
    ELSE {<<T, T>>, <<Null, F>>}

InitAdmin ==
    /\ \E typeA \in InviteTypes \ {Null}, typeB \in {Some("full"), Some("partial-chateau")},
          regimeA \in AdminRegimes, regimeB \in {Null, Some("sans gluten")},
          accA \in AdminAccommodations, accB \in {<<T, Some(1)>>, <<Null, Null>>} :
          invitationTable =
              [i \in InvitationIds |->
                  IF i = "invA"
                  THEN InvitationRow(i, typeA, regimeA, Null, accA[1], accA[2],
                                     Null, Some(0))
                  ELSE InvitationRow(i, typeB, regimeB, Null, accB[1], accB[2],
                                     Null, Null)]
    /\ \E answers \in [GuestIds -> UNION {AdminAnswers(g) : g \in GuestIds}] :
          /\ \A g \in GuestIds : answers[g] \in AdminAnswers(g)
          /\ invitesTable =
                [g \in GuestIds |->
                    InvitesRow(g, answers[g][1], Null, answers[g][2], BrunchOf(g), Null)]
    /\ page = [p \in Pages |-> Unmounted]
    /\ admin = AdminUnmounted
    /\ localStorage \in {NoSession} \cup {Session(r) : r \in AdminRows}
    /\ loginPage = [t \in Tabs |-> LoginUnmounted]
    /\ otherDashboard = "unmounted"
    /\ response = Null
    /\ editsLeft = 0
    /\ submits = 0
    /\ succeeded = {}
    /\ lastOk = Null

NextAdmin ==
    \/ AdminMount
    \/ \E storeError \in BOOLEAN, order \in Orders : AdminFetchInvitation(storeError, order)
    \/ \E storeError \in BOOLEAN : AdminFetchInvites(storeError, "asc")
    \/ \E type \in StatsTypes, status \in StatsStatuses : OpenStatsModal(type, status)
    \/ OpenAccommodationModal
    \/ CloseModals

SpecAdmin == InitAdmin /\ [][NextAdmin]_vars

\* The loads of the page and of the dashboard, over the same rows.
NextResolve ==
    \/ \E token \in Tokens : Mount(1, token)
    \/ \E storeError \in BOOLEAN : FetchInvitation(1, storeError)
    \/ \E storeError \in BOOLEAN : FetchInvites(1, storeError)
    \/ \E login \in Logins, password \in Passwords, storeError \in BOOLEAN :
          LoginHandleSubmit(1, login, password, storeError)
    \/ AdminMount
    \/ \E storeError \in BOOLEAN, order \in Orders : AdminFetchInvitation(storeError, order)
    \/ \E storeError \in BOOLEAN, order \in Orders : AdminFetchInvites(storeError, order)

SpecResolve == Init /\ [][NextResolve]_vars

\* Two pages opened once each on the link of invA, whose answers an earlier
\* submission has stored: each may reopen the form, edit and submit.
InitRace == InitWith(Some("full"), TRUE, MaxRaceEdits)

NextRace ==
    \E p \in Pages :
        \/ page[p].fetchPc = "unmounted" /\ Mount(p, "tokA")
        \/ FetchInvitation(p, FALSE)
        \/ FetchInvites(p, FALSE)
        \/ ClickModifier(p)
        \/ \E id \in GuestIds : ToggleBrunch(p, id)
        \/ ClickHebergementNon(p)
        \/ HandleSubmit(p)
        \/ \E storeError \in BOOLEAN : SubmitInvitation(p, storeError)
        \/ \E storeError \in BOOLEAN : SubmitInvite(p, storeError)

SpecRace == InitRace /\ [][NextRace]_vars

\* The administrator's browser, two tabs, over the rows an earlier
\* submission of invA has left.
InitDashboard == InitWith(Some("full"), TRUE, 0)

NextDashboard ==
    \/ \E t \in Tabs, login \in Logins, password \in Passwords, storeError \in BOOLEAN :
          LoginHandleSubmit(t, login, password, storeError)
    \/ AdminMount
    \/ \E storeError \in BOOLEAN : AdminFetchInvitation(storeError, "asc")
    \/ \E storeError \in BOOLEAN : AdminFetchInvites(storeError, "asc")
    \/ OtherMount
    \/ OtherLoaded
    \/ \E t \in Tabs : handleLogout(t)
    \/ \E id \in InvitationIds : ClickDetails(id)
    \/ \E k \in 1..MaxDetails, storeError \in BOOLEAN : FetchInvitationDetails(k, storeError)
    \/ CloseDetails

SpecDashboard == InitDashboard /\ [][NextDashboard]_vars

\* Two pages that have loaded invA with all its guests and reopened its
\* form, each holding the stored answers or an edit of them: accommodation
\* declined, the brunch of the first guest toggled, or both.
EditedForms(invitation, invites) ==
    {[invitation |-> inv, invites |-> gs] :
        inv \in {Some(invitation),
                 updateInvitation(updateInvitation(Some(invitation), "hebergement", F),
                                  "herbergement_nombre", Null)},
        gs \in {invites,
                updateInvite(invites, invites[1].id, "brunch",
                             IF invites[1].brunch = T THEN F ELSE T)}}

InitConcurrent ==
    /\ invitationTable =
          [i \in InvitationIds |->
              IF i = "invA" THEN Answered(i, Some("full"))
              ELSE Provisioned(i, Some("partial-chateau"))]
    /\ invitesTable =
          [g \in GuestIds |->
              IF FkOf(g) = "invA" THEN AnsweredGuest(g, Some("full"))
              ELSE ProvisionedGuest(g)]
    /\ \E forms \in [Pages -> EditedForms(SelectInvitation(invitationTable["invA"]),
                                          InvitesOfInvitation(invitesTable, "invA"))] :
          page = [p \in Pages |->
                    [Unmounted EXCEPT
                       !.token = "tokA", !.fetchPc = "done",
                       !.queries = <<"invitation", "invites">>,
                       !.invitation = forms[p].invitation,
                       !.invites = forms[p].invites]]
    /\ succeeded = {"invA"}
    /\ editsLeft = 0
    /\ submits = 0
    /\ lastOk = Null
    /\ admin = AdminUnmounted
    /\ localStorage = NoSession
    /\ loginPage = [t \in Tabs |-> LoginUnmounted]
    /\ otherDashboard = "unmounted"
    /\ response = Null

NextConcurrent ==
    \E p \in Pages :
        \/ HandleSubmit(p)
        \/ \E storeError \in BOOLEAN : SubmitInvitation(p, storeError)
        \/ \E storeError \in BOOLEAN : SubmitInvite(p, storeError)

SpecConcurrent == InitConcurrent /\ [][NextConcurrent]_vars

(***************************************************************************)
(* Validation alone: the page has loaded an invitation and its guests,     *)
(* whose answers are drawn from the profiles below, and the form is        *)
(* submitted.                                                              *)
(***************************************************************************)
GuestProfiles(g) ==
    {Invite(g, Null, Null, Null, BrunchOf(g), Null),
     Invite(g, T, F, T, BrunchOf(g), F),
     Invite(g, F, T, F, T, T),
     Invite(g, Null, T, T, BrunchOf(g), T),
     Invite(g, T, Null, F, BrunchOf(g), T),
     Invite(g, T, F, Null, BrunchOf(g), T),
     Invite(g, F, F, T, BrunchOf(g), Null),
     Invite(g, Null, Null, T, F, F)}

\* The guests of invA loaded by the page: the first n of its rows.
LoadedInvites(n) ==
    {invites \in [1..n -> UNION {GuestProfiles(g) : g \in GuestIds}] :
        \A i \in 1..n : invites[i].id = i + 1}

InitV ==
    /\ invitationTable = [i \in InvitationIds |-> Provisioned(i, Some("full"))]
    /\ invitesTable = [g \in GuestIds |-> ProvisionedGuest(g)]
    /\ \E type \in InviteTypes, heb \in Tri, nombre \in NombreValues, n \in 0..MaxGuests :
          \E invites \in LoadedInvites(n) :
             page = [p \in Pages |->
                       [Unmounted EXCEPT
                          !.token = "tokA", !.fetchPc = "done",
                          !.queries = <<"invitation", "invites">>,
                          !.invitation = Some(Invitation("invA", type, Null, Null,
                                                         heb, nombre, Null, Null)),
                          !.invites = invites]]
    /\ editsLeft = 0
    /\ submits = 0
    /\ succeeded = {}
    /\ lastOk = Null
    /\ admin = AdminUnmounted
    /\ localStorage = NoSession
    /\ loginPage = [t \in Tabs |-> LoginUnmounted]
    /\ otherDashboard = "unmounted"
    /\ response = Null

NextV == \E p \in Pages : HandleSubmit(p)

SpecV == InitV /\ [][NextV]_vars

\* The endpoint and its callers, and a page that loads, over the rows an
\* earlier submission of invA has left.
NextPost ==
    \/ \E body \in PostBodies, storeError \in BOOLEAN : POST(body, storeError)
    \/ \E token \in Tokens : Mount(1, token)
    \/ \E storeError \in BOOLEAN : FetchInvitation(1, storeError)
    \/ \E storeError \in BOOLEAN : FetchInvites(1, storeError)

SpecPost == InitEndpoint /\ [][NextPost]_vars

(***************************************************************************)
(* Filling the form: a page has loaded an invitation of any type and its   *)
(* guests; the guest submits and, at each alert of validateForm, answers   *)
(* the question the alert is about with the control the form renders.      *)
(***************************************************************************)
FormProfiles(g) ==
    {Invite(g, Null, Null, Null, BrunchOf(g), Null),
     Invite(g, T, Null, F, BrunchOf(g), Null),
     Invite(g, T, F, T, BrunchOf(g), F)}

\* Edits enough to answer every field of every guest and the accommodation.
FormEdits == 4 * MaxGuests + 2

InitForm ==
    /\ invitationTable = [i \in InvitationIds |-> Provisioned(i, Some("full"))]
    /\ invitesTable = [g \in GuestIds |-> ProvisionedGuest(g)]
    /\ \E type \in InviteTypes, heb \in Tri, nombre \in NombreValues, n \in 0..MaxGuests :
          \E invites \in [1..n -> UNION {FormProfiles(g) : g \in GuestIds}] :
             /\ \A i \in 1..n : invites[i].id = i + 1
             /\ heb # T => nombre = Null
             /\ page = [p \in Pages |->
                          IF p = 1
                          THEN [Unmounted EXCEPT
                                  !.token = "tokA", !.fetchPc = "done",
                                  !.queries = <<"invitation", "invites">>,
                                  !.invitation = Some(Invitation("invA", type, Null, Null,
                                                                 heb, nombre, Null, Null)),
                                  !.invites = invites]
                          ELSE Unmounted]
    /\ editsLeft = FormEdits
    /\ submits = 0
    /\ succeeded = {}
    /\ lastOk = Null
    /\ admin = AdminUnmounted
    /\ localStorage = NoSession
    /\ loginPage = [t \in Tabs |-> LoginUnmounted]
    /\ otherDashboard = "unmounted"
    /\ response = Null

\* The guest answers the question of the alert.
AnswerAlert(p) ==
    /\ page[p].validation # Null
    /\ ~page[p].validation[1].ok
    /\ LET v == page[p].validation[1]
       IN  \/ v.field = "mairie" /\ ClickMairie(p, v.id, TRUE)
           \/ v.field = "cocktail" /\ ClickCocktail(p, v.id, FALSE)
           \/ v.field = "chateau" /\ ClickChateau(p, v.id, TRUE)
           \/ v.field = "autorisation_ia" /\ ClickIa(p, v.id, FALSE)
           \/ v.field = "hebergement" /\ ClickHebergementOui(p)
           \/ v.field = "hebergement" /\ ClickHebergementNon(p)
           \/ v.field = "herbergement_nombre"
              /\ TypeNombre(p, Some([int |-> Some(1), frac |-> 0]))

NextForm == HandleSubmit(1) \/ AnswerAlert(1)

SpecForm == InitForm /\ [][NextForm]_vars

\* The guest does not give up: a step that can be taken is taken.
SpecFormFair == SpecForm /\ WF_vars(NextForm)

(***************************************************************************)
(* Properties of validateForm, checked under SpecV on the result the       *)
(* handler obtained for the state of the form.                             *)
(***************************************************************************)
\* The page has validated the form it holds.
Validated(p) == page[p].invitation # Null /\ page[p].validation # Null

\* The tri-state fields of a guest that section 4.2 requires for a type.
RequiredByTable(type) ==
    CASE type = Some("full") -> {"mairie", "cocktail", "chateau", "autorisation_ia"}
      [] type = Some("partial-mairie") -> {"mairie", "cocktail", "autorisation_ia"}
      [] type = Some("partial-chateau") -> {"chateau", "autorisation_ia"}
      [] OTHER -> {}

\* The guests, with the answers for the sub-events that do not apply to the
\* type all set to true.
InapplicableAnswered(type, invites) ==
    [i \in 1..Len(invites) |->
        CASE type = Some("partial-chateau") ->
                [invites[i] EXCEPT !.mairie = T, !.cocktail = T]
          [] type = Some("partial-mairie") ->
                [invites[i] EXCEPT !.chateau = T, !.brunch = T]
          [] OTHER -> invites[i]]

\* C1: the result of validateForm does not depend on the answers for the
\* sub-events that do not apply to the type (it is the result obtained with
\* those answers all given), and the partial-mairie guest with mairie=true,
\* cocktail=false, consent and accommodation answered passes.
C1_InapplicableIgnored ==
    \A p \in Pages : Validated(p) =>
        LET inv == page[p].invitation[1]
            invites == page[p].invites
            v == page[p].validation[1]
        IN  /\ v.ok = validateForm(page[p].invitation,
                                   InapplicableAnswered(inv.type, invites)).ok
            /\ ( /\ inv.type = Some("partial-mairie")
                 /\ Len(invites) = 1
                 /\ invites[1].mairie = T /\ invites[1].cocktail = F
                 /\ invites[1].autorisation_ia # Null
                 /\ inv.hebergement = F ) => v.ok

AccommodationFields == {"hebergement", "herbergement_nombre"}

\* The headcount is null, zero, negative or not a number.
HeadcountBad(nombre) == nombre = Null \/ nombre = NaN \/ nombre[1] <= 0

\* C2: for the three types of the table, validateForm fails exactly when a
\* tri-state field required for the type is unanswered (a guest field of the
\* table, or the accommodation flag that section 4.2 requires of every
\* invitation), or accommodation is accepted and the headcount is missing
\* (absent or not a positive integer).
C2_FailsIffRequiredMissing ==
    \A p \in Pages : Validated(p) =>
        LET inv == page[p].invitation[1]
            invites == page[p].invites
            v == page[p].validation[1]
        IN  inv.type \in {Some("full"), Some("partial-mairie"), Some("partial-chateau")} =>
               (~v.ok <=>
                  \/ \E i \in 1..Len(invites), f \in RequiredByTable(inv.type) :
                        invites[i][f] = Null
                  \/ inv.hebergement = Null
                  \/ inv.hebergement = T /\ HeadcountBad(inv.herbergement_nombre))

\* C7: validation fails when the accommodation flag is unanswered, and when
\* it is true with a headcount that is null, zero, negative or not a number;
\* the accommodation checks raise no alert when the flag is false or true
\* with a positive headcount, and when they are reached they raise the alert
\* of the failing check.
C7_Accommodation ==
    \A p \in Pages : Validated(p) =>
        LET inv == page[p].invitation[1]
            v == page[p].validation[1]
            bad == inv.hebergement = T /\ HeadcountBad(inv.herbergement_nombre)
        IN  /\ inv.hebergement = Null => ~v.ok
            /\ bad => ~v.ok
            /\ (inv.hebergement # Null /\ ~bad) => v.field \notin AccommodationFields
            /\ v.field \notin GuestFields =>
                  /\ v.field = "hebergement" <=> inv.hebergement = Null
                  /\ v.field = "herbergement_nombre" <=> bad
                  /\ v.ok <=> (inv.hebergement # Null /\ ~bad)

\* Accommodation accepted with a headcount of 2 passes.
C7_Witness ==
    \E p \in Pages :
        /\ Validated(p)
        /\ page[p].invitation[1].hebergement = T
        /\ page[p].invitation[1].herbergement_nombre = Some(2)
        /\ page[p].validation[1].ok

GuestsOf(i) == {g \in GuestIds : invitesTable[g].fk_invitation = i}

\* C3: in the store, an invitation whose confirmed_at is set has every field
\* its type requires answered for each of its guests.
C3_ConfirmedAnswered ==
    \A i \in InvitationIds :
        invitationTable[i].confirmed_at # Null =>
            \A g \in GuestsOf(i), f \in RequiredByTable(invitationTable[i].type) :
                invitesTable[g][f] # Null

\* C4: in the store, confirmed_at of an invitation is set exactly when some
\* submission for it has reached setSubmitted(true).
C4_ConfirmedIffSucceeded ==
    \A i \in InvitationIds :
        invitationTable[i].confirmed_at # Null <=> i \in succeeded

AnswerFields == {"regime", "allergie", "hebergement", "herbergement_nombre", "link_music"}

\* A page holds the result of a resolve begun after the last successful
\* submission, of the invitation that was submitted, and not yet edited.
Reresolved(p) ==
    /\ lastOk # Null
    /\ page[p].resolve = "clean"
    /\ page[p].fetchError = Null
    /\ page[p].invitation # Null
    /\ page[p].invitation[1].id = lastOk[1].id

\* C5: resolving the token again after a successful submission yields the
\* submitted values of the invitation and of each submitted guest, and a
\* confirmed_at that is set.
C5_RoundTrip ==
    \A p \in Pages : Reresolved(p) =>
        /\ \A f \in AnswerFields :
              page[p].invitation[1][f] = lastOk[1].invitation[f]
        /\ page[p].invitation[1].confirmed_at # Null
        /\ \A i \in 1..Len(lastOk[1].invites) :
              \E j \in 1..Len(page[p].invites) :
                 /\ page[p].invites[j].id = lastOk[1].invites[i].id
                 /\ \A f \in GuestFields :
                       page[p].invites[j][f] = lastOk[1].invites[i][f]

\* A resolve after the submission of edited answers, guests included.
C5_Witness ==
    \E p \in Pages :
        /\ Reresolved(p)
        /\ editsLeft < MaxEdits
        /\ Len(lastOk[1].invites) > 0
        /\ \E i \in 1..Len(lastOk[1].invites) : lastOk[1].invites[i].brunch = T

\* C6: a load that finds confirmed_at set puts the page in the submitted
\* state; while the page is submitted no answer is edited and nothing is
\* validated or submitted; and submitted becomes false only by "Modifier mon
\* invitation" (or by opening the page anew).
C6_RecapReadOnly ==
    [][\A p \in Pages :
          /\ ( /\ page[p].fetchPc = "invitation"
               /\ page'[p].fetchPc = "invites"
               /\ page'[p].invitation[1].confirmed_at # Null ) => page'[p].submitted
          /\ (page[p].submitted /\ page'[p].fetchPc # "invitation") =>
                /\ page'[p].invitation = page[p].invitation
                /\ page'[p].invites = page[p].invites
                   \/ (page[p].fetchPc = "invites" /\ page'[p].fetchPc = "done")
                /\ page'[p].validation = page[p].validation
                   \/ (page[p].fetchPc = "invites" /\ page'[p].fetchPc = "done")
                /\ page'[p].submitPc = "idle"
                /\ page'[p].loading = page[p].loading
          /\ (page[p].submitted /\ ~page'[p].submitted) =>
                \/ ClickModifier(p)
                \/ \E token \in Tokens : Mount(p, token)
      ]_vars

\* The recap of an invitation that was loaded confirmed, all of it loaded.
C6_Witness ==
    \E p \in Pages :
        /\ RecapShown(p)
        /\ page[p].fetchPc = "done"
        /\ page[p].invitation[1].confirmed_at # Null
        /\ Len(page[p].invites) > 0
        /\ editsLeft > 0
        /\ submits = 0

\* Accepted with a positive integer headcount, or declined with none.
HeadcountOk(invitation) ==
    /\ invitation.hebergement = T =>
          /\ ~HeadcountBad(invitation.herbergement_nombre)
          /\ invitation.herbergement_nombre[1] \in Nat
    /\ invitation.hebergement = F => invitation.herbergement_nombre = Null

\* C8: the values a submission writes (those being written, those of the
\* last successful submission, and those stored with confirmed_at) have a
\* positive integer headcount when accommodation is accepted and a null
\* headcount when it is declined.
C8_HeadcountWritten ==
    /\ \A p \in Pages :
          page[p].submitPc # "idle" => HeadcountOk(page[p].subInvitation[1])
    /\ lastOk # Null => HeadcountOk(lastOk[1].invitation)
    /\ \A i \in InvitationIds :
          invitationTable[i].confirmed_at # Null => HeadcountOk(invitationTable[i])

\* An invitation stored as accepted is edited to declined and submitted.
C8_Witness ==
    /\ lastOk # Null
    /\ lastOk[1].invitation.hebergement = F
    /\ invitationTable[lastOk[1].id].hebergement = F
    /\ invitationTable[lastOk[1].id].herbergement_nombre = Null
    /\ lastOk[1].id \in succeeded
    /\ editsLeft < MaxEdits
    /\ submits = 1

NotFound == Some("Invitation introuvable.")

\* C10: when no invitation matches the digest of the token, or the lookup
\* fails, the page ends with the not-found error, its invitation stays null
\* and it has issued the invitation lookup only; the guest query is issued
\* only once the invitation of the token is held.
C10_NotFound ==
    \A p \in Pages :
        /\ page[p].fetchError = NotFound =>
              /\ page[p].invitation = Null
              /\ page[p].invites = <<>>
              /\ page[p].queries = <<"invitation">>
              /\ page[p].fetchPc = "done"
        /\ ( /\ page[p].fetchPc \in {"invites", "done"}
             /\ InvitationsByHash(invitationTable, sha256(page[p].token)) = {} )
           => page[p].fetchError = NotFound
        /\ Len(page[p].queries) > 1 =>
              /\ page[p].invitation # Null
              /\ invitationTable[page[p].invitation[1].id].token_hash = sha256(page[p].token)

\* The page was opened with a token that matches no invitation.
C10_Witness ==
    \E p \in Pages :
        /\ page[p].token = "tokX"
        /\ page[p].fetchPc = "done"
        /\ page[p].fetchError = NotFound

(***************************************************************************)
(* The load of the page and the rows of the store.                         *)
(***************************************************************************)
\* C11: a step of the load (the page is opened, the invitation lookup
\* answers, the guest query answers) leaves every row of both tables
\* unchanged, whether or not the token matches an invitation.
C11_ResolveReadOnly ==
    [][\A p \in Pages :
          page'[p].fetchPc # page[p].fetchPc => UNCHANGED Store
      ]_vars

\* A load that matched has run to its end over rows nobody has written.
C11_Witness ==
    \E p \in Pages :
        /\ page[p].fetchPc = "done"
        /\ page[p].fetchError = Null
        /\ page[p].queries = <<"invitation", "invites">>
        /\ Len(page[p].invites) = MaxGuests
        /\ submits = 0
        /\ editsLeft = MaxEdits

\* The ids of the guests of a list.
IdsOf(invites) == {invites[k].id : k \in 1..Len(invites)}

\* The dashboard holds the invitations it has fetched.
AdminLoaded == admin.pc = "done" /\ admin.error = Null

\* C12: a successful resolve holds exactly the guest rows whose
\* fk_invitation is the id of the resolved invitation, each once; and the
\* dashboard nests under each invitation exactly the guest rows whose
\* fk_invitation is its id, each once, so that every guest is nested under
\* exactly one invitation.
C12_GuestsOfInvitation ==
    /\ \A p \in Pages :
          (page[p].fetchPc = "done" /\ page[p].fetchError = Null) =>
              /\ IdsOf(page[p].invites) = GuestsOf(page[p].invitation[1].id)
              /\ Len(page[p].invites) = Cardinality(IdsOf(page[p].invites))
              /\ \A k \in 1..Len(page[p].invites) :
                    page[p].invites[k].fk_invitation = page[p].invitation[1].id
    /\ AdminLoaded =>
          LET invitations == admin.invitations
          IN  /\ \A i \in 1..Len(invitations) :
                    /\ IdsOf(invitations[i].invites) = GuestsOf(invitations[i].id)
                    /\ Len(invitations[i].invites) =
                          Cardinality(IdsOf(invitations[i].invites))
              /\ \A g \in GuestIds :
                    Cardinality({i \in 1..Len(invitations) :
                                    g \in IdsOf(invitations[i].invites)}) = 1

\* The page holds the guests of invA while the dashboard holds both
\* invitations with their guests.
C12_Witness ==
    /\ page[1].fetchPc = "done"
    /\ page[1].fetchError = Null
    /\ Len(page[1].invites) = MaxGuests
    /\ AdminLoaded
    /\ Len(admin.invitations) = 2
    /\ \E i \in 1..2 : Len(admin.invitations[i].invites) = MaxGuests

(***************************************************************************)
(* Properties of the stats of the dashboard.                               *)
(***************************************************************************)
\* calculateStats returned the stats of the invitations the dashboard holds.
StatsShown == AdminLoaded /\ ~admin.stats[1].threw

Categories == {"complete", "mairie", "chateau"}

\* The types of invitation whose guests a category counts.
CategoryTypes(category) ==
    CASE category = "complete" -> {Some("full")}
      [] category = "mairie" -> {Some("full"), Some("partial-mairie")}
      [] category = "chateau" -> {Some("full"), Some("partial-chateau")}

\* The answer of a guest a category looks at.
CategoryAnswer(category, invite) ==
    IF category = "mairie" THEN invite.mairie ELSE invite.chateau

\* The guests of the invitations, as <<i, k>>: the k-th guest of the i-th.
Guests(invitations) ==
    UNION {{<<i, k>> : k \in 1..Len(invitations[i].invites)} :
              i \in 1..Len(invitations)}

\* The guests a category applies to.
Applicable(invitations, category) ==
    {g \in Guests(invitations) : invitations[g[1]].type \in CategoryTypes(category)}

\* The applicable guests of a category whose answer is the given one.
Answering(invitations, category, answer) ==
    {g \in Applicable(invitations, category) :
        CategoryAnswer(category, invitations[g[1]].invites[g[2]]) = answer}

\* C13: in each category, total is the number of applicable guests,
\* accepted the number of those whose answer is true, refused the number
\* whose answer is false; the unanswered count toward total only, accepted
\* + refused <= total, and the guests of an invitation of another type are
\* counted in no category.
C13_CategoryCounters ==
    StatsShown =>
        \A category \in Categories :
            LET counter == admin.stats[1][category]
                invitations == admin.invitations
            IN  /\ counter.total = Cardinality(Applicable(invitations, category))
                /\ counter.accepted = Cardinality(Answering(invitations, category, T))
                /\ counter.refused = Cardinality(Answering(invitations, category, F))
                /\ counter.accepted + counter.refused <= counter.total
                /\ counter.total - counter.accepted - counter.refused =
                      Cardinality(Answering(invitations, category, Null))

\* Stats with an unanswered guest in mairie, and an invitation of another
\* type whose guests are counted nowhere.
C13_Witness ==
    /\ StatsShown
    /\ admin.stats[1].mairie.total > admin.stats[1].mairie.accepted + admin.stats[1].mairie.refused
    /\ admin.stats[1].complete.refused > 0
    /\ \E i \in 1..Len(admin.invitations) :
          /\ admin.invitations[i].type = Some("other")
          /\ Len(admin.invitations[i].invites) > 0

\* A sequence in the order given by a permutation of its indices.
Permute(seq, perm) == [i \in 1..Len(seq) |-> seq[perm[i]]]

\* The invitations with the guests of each in every order.
RECURSIVE GuestShuffles(_)
GuestShuffles(invitations) ==
    IF invitations = <<>> THEN {<<>>}
    ELSE {<<[Head(invitations) EXCEPT !.invites = Permute(@, perm)]>> \o rest :
             perm \in Permutations(1..Len(Head(invitations).invites)),
             rest \in GuestShuffles(Tail(invitations))}

\* Every order of the invitations and of the guests of each.
Shuffles(invitations) ==
    {Permute(shuffled, perm) :
        shuffled \in GuestShuffles(invitations),
        perm \in Permutations(1..Len(invitations))}

\* The counts of the regime groups of a result.
RegimeCounts(stats) == [k \in DOMAIN stats.regimes |-> stats.regimes[k].count]

\* C14: for every order of the invitations and of the guests within each,
\* calculateStats gives the same category counters, the same accommodation
\* total and the same regime group counts (and throws for every order when
\* it throws for one).
C14_OrderIndependent ==
    AdminLoaded =>
        \A shuffled \in Shuffles(admin.invitations) :
            LET stats == admin.stats[1]
                other == calculateStats(shuffled)
            IN  /\ other.threw = stats.threw
                /\ ~stats.threw =>
                      /\ \A category \in Categories : other[category] = stats[category]
                      /\ other.accommodation = stats.accommodation
                      /\ DOMAIN other.regimes = DOMAIN stats.regimes
                      /\ \A k \in DOMAIN stats.regimes :
                            RegimeCounts(other)[k] = RegimeCounts(stats)[k]

\* Two invitations that both add to the accommodation total and fall in
\* the same regime group, one of them with two guests.
C14_Witness ==
    /\ StatsShown
    /\ Len(admin.invitations) = 2
    /\ \A i \in 1..2 : admin.invitations[i].hebergement = T
    /\ admin.invitations[1].herbergement_nombre # admin.invitations[2].herbergement_nombre
    /\ \E k \in DOMAIN admin.stats[1].regimes : admin.stats[1].regimes[k].count = 2
    /\ \E i \in 1..2 : Len(admin.invitations[i].invites) >= 2

\* The sum of f over the elements of a set.
RECURSIVE SumOver(_, _)
SumOver(S, f) ==
    IF S = {} THEN 0
    ELSE LET x == CHOOSE y \in S : TRUE
         IN  f[x] + SumOver(S \ {x}, f)

FullOnly(invitations) == SelectSeq(invitations, LAMBDA inv : inv.type = Some("full"))

\* C16: each counter of complete is at most the same counter of chateau,
\* and the counters of complete are the counters of chateau computed over
\* the guests of the invitations of type full alone.
C16_CompleteWithinChateau ==
    StatsShown =>
        LET stats == admin.stats[1]
        IN  /\ stats.complete.accepted <= stats.chateau.accepted
            /\ stats.complete.refused <= stats.chateau.refused
            /\ stats.complete.total <= stats.chateau.total
            /\ stats.complete = calculateStats(FullOnly(admin.invitations)).chateau

\* A full invitation next to a partial-mairie one, which is in neither
\* category, both with guests.
C16_Witness ==
    /\ StatsShown
    /\ admin.stats[1].complete.total > 0
    /\ admin.stats[1].complete.total = admin.stats[1].chateau.total
    /\ admin.stats[1].mairie.total > admin.stats[1].complete.total

\* The invitations of the dashboard whose regime is the given text.
WithRegime(invitations, text) ==
    {i \in 1..Len(invitations) : invitations[i].regime = Some(text)}

\* C17: calculateStats returns the regime groups; an invitation is in a
\* group exactly when its regime is a non-empty string, the group is the
\* one keyed by that exact string, and the count of each group is the
\* number of member names it carries, one per member.
C17_RegimeGroups ==
    AdminLoaded =>
        LET stats == admin.stats[1]
            invitations == admin.invitations
        IN  /\ ~stats.threw
            /\ \A i \in 1..Len(invitations) :
                  (invitations[i].regime # Null /\ invitations[i].regime # Some(""))
                  <=> (\E k \in DOMAIN stats.regimes : invitations[i].regime = Some(k))
            /\ \A k \in DOMAIN stats.regimes :
                  /\ stats.regimes[k].count = Len(stats.regimes[k].invitations)
                  /\ stats.regimes[k].count = Cardinality(WithRegime(invitations, k))

\* The sum of the headcounts of the accommodation details.
Headcounts(accommodations) ==
    SumOver(1..Len(accommodations),
            [i \in 1..Len(accommodations) |-> accommodations[i].nombre])

\* C18: over the invitations the dashboard holds, getStatsDetails(type,
\* status) returns as many people as stats[type][status], for mairie and
\* chateau, accepted and refused, and the headcounts getAccommodationDetails
\* returns sum to stats.accommodation; an open modal shows these lists.
C18_DetailsMatchCounters ==
    StatsShown =>
        LET stats == admin.stats[1]
            invitations == admin.invitations
        IN  /\ \A type \in StatsTypes, status \in StatsStatuses :
                  Len(getStatsDetails(invitations, type, status)) = stats[type][status]
            /\ Headcounts(getAccommodationDetails(invitations)) = stats.accommodation
            /\ admin.statsModal # Null =>
                  Len(admin.statsModal[1].people) =
                      stats[admin.statsModal[1].type][admin.statsModal[1].status]
            /\ admin.accommodationModal # Null =>
                  Headcounts(admin.accommodationModal[1].invitations) = stats.accommodation

\* The modal of the guests who refused the chateau lists some of them,
\* while a guest of an invitation of another type refused too.
C18_Witness ==
    /\ StatsShown
    /\ admin.statsModal # Null
    /\ admin.statsModal[1].type = "chateau"
    /\ admin.statsModal[1].status = "refused"
    /\ Len(admin.statsModal[1].people) > 0
    /\ \E i \in 1..Len(admin.invitations) :
          /\ admin.invitations[i].type \in {Some("partial-mairie"), Some("other")}
          /\ \E k \in 1..Len(admin.invitations[i].invites) :
                admin.invitations[i].invites[k].chateau = F

(***************************************************************************)
(* Submissions that overlap.                                               *)
(***************************************************************************)
\* The step in which the invitation update of the submission of p succeeds.
InvitationWritten(p) ==
    /\ page[p].submitPc = "invitation"
    /\ page'[p].submitPc = "invites" \/ page'[p].submitted

\* The step in which the update of a guest row of the submission of p succeeds.
InviteWritten(p) ==
    /\ page[p].submitPc = "invites"
    /\ page'[p].k = page[p].k + 1 \/ page'[p].submitted

\* C19: every update a submission makes sets all the answers of the row it
\* touches to the values of that submission and touches no other row, so a
\* row holds entirely the values of the last update made to it; no other
\* step changes a row; and while a submission awaits an update, that update
\* can succeed whatever the other page is doing.
C19_LastWriteWinsPerRow ==
    [][\A p \in Pages :
          /\ InvitationWritten(p) =>
                LET id == page[p].subInvitation[1].id
                    written == InvitationPayload(page[p].subInvitation[1], Now)
                IN  /\ \A f \in AnswerFields : invitationTable'[id][f] = written[f]
                    /\ invitationTable'[id].confirmed_at # Null
                    /\ \A i \in InvitationIds \ {id} :
                          invitationTable'[i] = invitationTable[i]
                    /\ UNCHANGED invitesTable
          /\ InviteWritten(p) =>
                LET id == page[p].subInvites[page[p].k].id
                    written == InvitePayload(page[p].subInvites[page[p].k])
                IN  /\ \A f \in GuestFields : invitesTable'[id][f] = written[f]
                    /\ \A g \in GuestIds \ {id} : invitesTable'[g] = invitesTable[g]
                    /\ UNCHANGED invitationTable
          /\ (\A q \in Pages : ~InvitationWritten(q) /\ ~InviteWritten(q)) =>
                UNCHANGED Store
          /\ page[p].submitPc = "invitation" => ENABLED SubmitInvitation(p, FALSE)
          /\ page[p].submitPc = "invites" => ENABLED SubmitInvite(p, FALSE)
      ]_vars

\* Both pages have submitted, their updates interleave, and they carry
\* different answers: the invitation row holds those of one page while the
\* other page has written a guest row since.
C19_Witness ==
    /\ \A p \in Pages : page[p].submitPc = "invites"
    /\ page[1].subInvitation # page[2].subInvitation
    /\ page[1].k > 1
    /\ \A f \in AnswerFields :
          invitationTable["invA"][f] =
              InvitationPayload(page[2].subInvitation[1], Now)[f]

(***************************************************************************)
(* The endpoint and the invitation of the token.                           *)
(***************************************************************************)
\* The fields of the body that the invitation stores.
PostInvitationFields == {"regime", "allergie", "hebergement"}

\* C20: in every state, a call of POST that the store accepts leads to a
\* state in which the invitation whose token_hash is the digest of the
\* token holds the supplied fields and a confirmed_at that is not null, and
\* every invitation and every guest row with another token_hash is as it
\* was.
C20_PostWritesInvitation ==
    \A body \in PostBodies :
        ENABLED ( /\ POST(body, FALSE)
                  /\ \A i \in InvitationIds :
                        IF invitationTable[i].token_hash = sha256(body.token)
                        THEN /\ invitationTable'[i].confirmed_at # Null
                             /\ \A f \in PostInvitationFields \cap DOMAIN body :
                                   invitationTable'[i][f] = body[f]
                        ELSE invitationTable'[i] = invitationTable[i]
                  /\ \A g \in GuestIds :
                        invitesTable[g].token_hash # Some(sha256(body.token)) =>
                            invitesTable'[g] = invitesTable[g] )

(***************************************************************************)
(* The brunch answer.                                                      *)
(***************************************************************************)
\* C21: after a successful submission the stored brunch of each guest that
\* was submitted is true or false, never null, and no validation fails on
\* the field brunch.
C21_BrunchBoolean ==
    /\ lastOk # Null =>
          \A i \in 1..Len(lastOk[1].invites) :
              invitesTable[lastOk[1].invites[i].id].brunch \in {T, F}
    /\ \A p \in Pages :
          page[p].validation # Null => page[p].validation[1].field # "brunch"

(***************************************************************************)
(* The session marker and the reads of the dashboard.                      *)
(***************************************************************************)
\* A step in which a dashboard begins to read the store: fetchInvitations
\* is called by checkAuth, or fetchInvitationDetails by a click.
BeginsRead ==
    \/ admin.pc # "invitation" /\ admin'.pc = "invitation"
    \/ Len(admin'.pending) > Len(admin.pending)
    \/ otherDashboard # "loading" /\ otherDashboard' = "loading"

\* The login exists once and the digest of the password is the stored one.
CredentialsMatch(login, password) ==
    \E r \in AdminRows :
        /\ {q \in AdminRows : q.login = login} = {r}
        /\ sha256(password) = r.password

\* The marker is stored only by a login whose credentials match.
MarkerStoredByLogin ==
    (localStorage'.adminToken # Null /\ localStorage' # localStorage) =>
        \E t \in Tabs, login \in Logins, password \in Passwords :
            /\ CredentialsMatch(login, password)
            /\ LoginHandleSubmit(t, login, password, FALSE)

\* A dashboard opened without the marker goes to the login page and reads
\* nothing.
RedirectsWithoutMarker ==
    (AdminMount /\ localStorage.adminToken = Null) =>
        /\ admin'.pc = "login"
        /\ admin'.invitations = <<>>
        /\ admin'.pending = <<>>

\* Logout removes the marker.
LogoutRemovesMarker ==
    (\E t \in Tabs : handleLogout(t)) => localStorage'.adminToken = Null

\* C22: a dashboard begins to read invitations or guests only while the
\* adminToken is in the local storage, and without it goes to the login page
\* and reads nothing; the adminToken is stored only by a login whose login
\* exists and whose password digest is the stored one; logout removes it.
C22_SessionGuardsReads ==
    [][ /\ BeginsRead => localStorage.adminToken # Null
        /\ RedirectsWithoutMarker
        /\ MarkerStoredByLogin
        /\ LogoutRemovesMarker
      ]_vars

(***************************************************************************)
(* The details modal.                                                      *)
(***************************************************************************)
\* C28: whenever the details modal is displayed and shows details
\* (selectedInvitation and invitationDetails are set, loadingDetails is
\* false), the details are those of the selected invitation.
C28_DetailsOfSelected ==
    (DetailsModalShown /\ ~admin.loadingDetails) =>
        admin.invitationDetails[1].id = admin.selectedInvitation[1]

(***************************************************************************)
(* Validation gates the writes of handleSubmit.                            *)
(***************************************************************************)
\* C23: a submission whose validateForm fails changes no row, leaves loading
\* and submitted false and starts no write; a page starts its writes only
\* in a step of handleSubmit in which validateForm, run on the form as it is
\* then, succeeds, and writes that form; and rows change only by a page
\* whose writes were so started.
C23_ValidationGates ==
    [][\A p \in Pages :
          /\ ( /\ HandleSubmit(p)
               /\ ~validateForm(page[p].invitation, page[p].invites).ok ) =>
                 /\ UNCHANGED Store
                 /\ page'[p].submitPc = "idle"
                 /\ ~page'[p].loading
                 /\ ~page'[p].submitted
          /\ (page[p].submitPc = "idle" /\ page'[p].submitPc # "idle") =>
                 /\ validateForm(page[p].invitation, page[p].invites).ok
                 /\ page'[p].validation = Some(Ok)
                 /\ page'[p].subInvitation = page[p].invitation
                 /\ page'[p].subInvites = page[p].invites
          /\ (page[p].submitPc = "idle" /\ page'[p].submitPc = "idle") =>
                 \/ UNCHANGED Store
                 \/ \E q \in Pages \ {p} : page[q].submitPc # "idle"
      ]_vars

\* A submission was refused by validateForm with guests loaded.
C23_Witness ==
    \E p \in Pages :
        /\ page[p].fetchPc = "done"
        /\ Len(page[p].invites) > 0
        /\ page[p].validation # Null
        /\ ~page[p].validation[1].ok
        /\ page[p].submitPc = "idle"
        /\ ~page[p].loading
        /\ ~page[p].submitted

(***************************************************************************)
(* A failed submission and the rows of the store.                          *)
(***************************************************************************)
\* A write of the submission of page p returns an error.
WriteFails(p) == SubmitInvitation(p, TRUE) \/ SubmitInvite(p, TRUE)

\* C24: when a write of a submission returns an error, the invitation row
\* does not carry the confirmed_at of that submission (no write of it was
\* applied: the invitation update, which sets confirmed_at to the time of
\* the submission, is the first of them), and the failing step changes no
\* row.
C24_FailureLeavesStore ==
    [][\A p \in Pages :
          WriteFails(p) =>
              /\ UNCHANGED Store
              /\ invitationTable[page[p].subInvitation[1].id].confirmed_at # Some(Now)
      ]_vars

(***************************************************************************)
(* Two submissions of one invitation that both succeed.                    *)
(***************************************************************************)
\* The last submission of page p has succeeded, the page holds all the
\* guests of its invitation, and the form has not been reopened since.
Completed(p) ==
    /\ page[p].fetchPc = "done"
    /\ page[p].invitation # Null
    /\ page[p].submitPc = "idle"
    /\ page[p].submitted
    /\ page[p].validation = Some(Ok)
    /\ Len(page[p].invites) = Cardinality(GuestsOf(page[p].invitation[1].id))

\* The invitation row and the guest rows hold what page p has submitted.
StoreHolds(p) ==
    /\ \A f \in AnswerFields \ {"herbergement_nombre"} :
          invitationTable[page[p].invitation[1].id][f] = page[p].invitation[1][f]
    /\ invitationTable[page[p].invitation[1].id].herbergement_nombre =
          ToJson(page[p].invitation[1].herbergement_nombre)
    /\ \A i \in 1..Len(page[p].invites), f \in GuestFields :
          invitesTable[page[p].invites[i].id][f] = page[p].invites[i][f]

\* C25: once the submissions of both pages, for the same invitation, have
\* succeeded, the invitation row and all its guest rows hold the values of
\* one of the two submissions.
C25_OneSubmission ==
    ( /\ \A p \in Pages : Completed(p)
      /\ \A p, q \in Pages : page[p].invitation[1].id = page[q].invitation[1].id )
    => \E p \in Pages : StoreHolds(p)

(***************************************************************************)
(* The end of a failed submission, and loading.                            *)
(***************************************************************************)
\* C26: a write that returns an error ends the submission: the handler is
\* over, loading is false, submitted is false and the step changes no row;
\* a page starts writing again only by handleSubmit, and while it is not
\* writing no row changes; loading is true exactly while the writes of a
\* submission are in flight; and no handleSubmit runs on a page whose
\* writes are in flight.
C26_FailureTerminal ==
    [][\A p \in Pages :
          /\ WriteFails(p) =>
                /\ page'[p].submitPc = "idle"
                /\ ~page'[p].loading
                /\ ~page'[p].submitted
                /\ UNCHANGED Store
          /\ (page[p].submitPc = "idle" /\ page'[p].submitPc # "idle") => HandleSubmit(p)
          /\ (\A q \in Pages : page[q].submitPc = "idle") => UNCHANGED Store
          /\ page[p].loading <=> page[p].submitPc # "idle"
          /\ page'[p].loading <=> page'[p].submitPc # "idle"
          /\ page[p].submitPc # "idle" => ~HandleSubmit(p)
      ]_vars

\* The latest submission has failed on a guest update, after its invitation
\* update was applied.
C26_Witness ==
    \E p \in Pages :
        /\ page[p].fetchPc = "done"
        /\ page[p].submitPc = "idle"
        /\ ~page[p].loading
        /\ ~page[p].submitted
        /\ page[p].validation = Some(Ok)
        /\ Len(page[p].invites) > 0
        /\ lastOk = Null
        /\ submits > 0
        /\ invitationTable[page[p].invitation[1].id].confirmed_at = Some(submits)
        /\ \A q \in Pages \ {p} : page[q].fetchPc = "unmounted"

(***************************************************************************)
(* What validateForm requires can be answered on the form.                 *)
(***************************************************************************)
\* C27: whatever the type of the invitation (a null or unrecognised type
\* included) and whatever the form holds once loaded, the guest who answers
\* each question validateForm alerts about reaches a form on which
\* validateForm succeeds; the control of the question is rendered each time.
C27_RequiredIsAnswerable == <>(page[1].validation = Some(Ok))

\* The form of an invitation of a null or unrecognised type, with guests,
\* has been answered and validateForm has succeeded.
C27_Witness ==
    /\ page[1].validation = Some(Ok)
    /\ page[1].invitation[1].type \in {Null, Some("other")}
    /\ Len(page[1].invites) = MaxGuests
    /\ editsLeft < FormEdits - MaxGuests

(***************************************************************************)
(* The endpoint called with a token that matches nothing.                  *)
(***************************************************************************)
\* No row of either table has the digest of the token of the body as its
\* token_hash.
Unmatched(body) ==
    /\ InvitationsByHash(invitationTable, sha256(body.token)) = {}
    /\ \A g \in GuestIds : invitesTable[g].token_hash # Some(sha256(body.token))

\* C29: a call of the endpoint whose token digest matches no stored
\* token_hash changes no row of either table (nothing is marked confirmed)
\* and, unless the store reports an error, is answered {ok: true}; any call
\* is answered with status 500 exactly when the store reports an error.
C29_UnmatchedTokenOk ==
    [][\A body \in PostBodies, storeError \in BOOLEAN :
          POST(body, storeError) =>
              /\ Unmatched(body) =>
                    /\ UNCHANGED Store
                    /\ ~storeError => response' = Some(OkResponse)
              /\ response'[1].status = 500 <=> storeError
      ]_vars

\* A call was answered {ok: true} and no guest row is marked confirmed.
C29_Witness ==
    /\ response = Some(OkResponse)
    /\ \A g \in GuestIds : invitesTable[g].confirmed_at = Null
    /\ \A i \in InvitationIds : invitationTable[i] = IF i = "invA"
                                                     THEN Answered(i, Some("full"))
                                                     ELSE Provisioned(i, Some("partial-chateau"))

(***************************************************************************)
(* The setters of the form.                                                *)
(***************************************************************************)
InvitationFields ==
    {"regime", "allergie", "hebergement", "herbergement_nombre", "link_music"}

\* The guests after updateInvite(id, field, value) are the guests before, in
\* the same order, with the field of the guest of that id set to the value.
InviteUpdated(before, after, id, field, value) ==
    /\ Len(after) = Len(before)
    /\ \A i \in 1..Len(before) :
          /\ after[i].id = before[i].id
          /\ before[i].id # id => after[i] = before[i]
          /\ before[i].id = id =>
                /\ after[i][field] = value
                /\ \A f \in DOMAIN before[i] \ {field} : after[i][f] = before[i][f]

\* The invitation after updateInvitation(field, value): null if it was
\* null, else the invitation before with the field set to the value.
InvitationUpdated(before, after, field, value) ==
    IF before = Null THEN after = Null
    ELSE /\ after # Null
         /\ after[1][field] = value
         /\ \A f \in DOMAIN before[1] \ {field} : after[1][f] = before[1][f]

\* C30: on the guests and the invitation any page holds, updateInvite
\* changes only the given field of the guest of the given id and keeps the
\* other guests, the other fields and the order, and updateInvitation
\* changes only the given field of the invitation and changes nothing while
\* the invitation is null; a step that edits the guests leaves the
\* invitation as it was, and a step that edits the invitation leaves the
\* guests as they were.
C30_SettersFrame ==
    /\ [](\A p \in Pages :
            /\ \A id \in GuestIds, field \in GuestFields, value \in Tri :
                  InviteUpdated(page[p].invites,
                                updateInvite(page[p].invites, id, field, value),
                                id, field, value)
            /\ \A field \in InvitationFields, value \in Tri :
                  InvitationUpdated(page[p].invitation,
                                    updateInvitation(page[p].invitation, field, value),
                                    field, value))
    /\ [][\A p \in Pages :
            (page'[p].fetchPc = page[p].fetchPc /\ page[p].fetchPc # "unmounted") =>
                /\ page'[p].invites # page[p].invites =>
                      /\ page'[p].invitation = page[p].invitation
                      /\ \E id \in GuestIds, field \in GuestFields, value \in Tri :
                            InviteUpdated(page[p].invites, page'[p].invites,
                                          id, field, value)
                /\ page'[p].invitation # page[p].invitation =>
                      page'[p].invites = page[p].invites
         ]_vars

\* The form holds several guests and all the edits but one were of guests:
\* accommodation was declined by the last of them.
C30_Witness ==
    \E p \in Pages :
        /\ page[p].fetchPc = "done"
        /\ Len(page[p].invites) = MaxGuests
        /\ editsLeft <= FormEdits - 3
        /\ page[p].validation = Some(Ok)
        /\ page[p].invitation[1].hebergement = F

====
